---------------------------- MODULE Spec2Model ----------------------------
(***************************************************************************)
(* Hospital decision-support ETL: the readmission computations (demo.py,   *)
(* etl/extract.py), the relational loader (etl/load.py over                *)
(* models/schema.py), the transformer (etl/transform.py), the run of the   *)
(* demonstration script (demo.py main) and the dashboard list (app.py).    *)
(*                                                                         *)
(* Timestamps are integers counting ticks, TicksPerDay ticks to a day, so  *)
(* that a timestamp can carry a time of day.  A nullable value is the      *)
(* empty sequence (NULL / NaT / NaN / None) or a one-element sequence.     *)
(***************************************************************************)
EXTENDS Integers, Sequences, FiniteSets, TLC

VARIABLES
    source,       \* where the admissions table came from: "demo" or "db"
    admissions,   \* the admissions table: a sequence of rows, in file/heap order
    memOut,       \* result of the in-memory readmission computation
    sqlOut,       \* result of extract_readmission_data
    db,           \* the relational sink: for each entity, the set of its rows
    last,         \* the latest loader call: its operation, record and result
    frame,        \* the table a cleaning operation works on: kind, columns, rows
    stage,        \* how many times the cleaning operation has been applied to it
    before,       \* the table as it was before the latest cleaning call
    featIn,       \* the four tables given to engineer_features_for_readmission
    featOut,      \* what the call gave back: nothing yet, a table, or an error
    assoc,        \* the procedures table and the two association tables
    files,        \* the files of the processed-data directory: name and rows
    mlOut,        \* what preprocess_for_ml gave back: nothing yet, (features, target), or an error
    sessions,     \* the number of database sessions open
    pipe,         \* the run of demo.py: position, stages invoked, failure reported
    recent_admissions,  \* PatientData.recent_admissions of the dashboard
    history,      \* every entry the dashboard list ever received, newest first
    response      \* what the latest dashboard read endpoint returned

readmVars == <<source, admissions, memOut, sqlOut>>
loadVars == <<db, last, sessions>>
cleanVars == <<frame, stage, before>>
featVars == <<featIn, featOut>>
sinkVars == <<assoc, files>>
mlVars == <<mlOut>>
pipeVars == <<pipe>>
appVars == <<recent_admissions, history, response>>

vars == <<readmVars, loadVars, cleanVars, featVars, sinkVars, mlVars, pipeVars, appVars>>

\* the variables each part of the system leaves alone
notReadm == <<loadVars, cleanVars, featVars, sinkVars, mlVars, pipeVars, appVars>>
notLoad == <<readmVars, cleanVars, featVars, sinkVars, mlVars, pipeVars, appVars>>
notClean == <<readmVars, loadVars, featVars, sinkVars, mlVars, pipeVars, appVars>>
notFeat == <<readmVars, loadVars, cleanVars, sinkVars, mlVars, pipeVars, appVars>>
notSink == <<readmVars, cleanVars, featVars, mlVars, pipeVars, appVars>>
notMl == <<readmVars, loadVars, cleanVars, featVars, sinkVars, pipeVars, appVars>>
notPipe == <<readmVars, cleanVars, featVars, sinkVars, mlVars, appVars>>
notApp == <<readmVars, loadVars, cleanVars, featVars, sinkVars, mlVars, pipeVars>>

---------------------------------------------------------------------------
(* Nullable values *)

Null == <<>>
Some(v) == <<v>>
IsNull(x) == x = <<>>
Val(x) == x[1]

---------------------------------------------------------------------------
(* Bounds and program constants *)

\* model resolution of a timestamp: ticks per calendar day
TicksPerDay == 2
\* at most this many rows in a table of the model
MaxRows == 3

ReadmissionWindowDays == 30

Patients == {1, 2}

\* days (offset from 2020-01-01) and stays the sample generator draws, a
\* subset of randint(0, 365) and randint(1, 30)
SampleDays == {0, 1, ReadmissionWindowDays + 1, ReadmissionWindowDays + 2,
               2 * ReadmissionWindowDays + 3}
SampleStays == {1, 2}

\* timestamps of the rows of the relational admissions table
AdmTimes == {0, ReadmissionWindowDays * TicksPerDay,
             ReadmissionWindowDays * TicksPerDay + 1,
             (ReadmissionWindowDays + 1) * TicksPerDay}
DisTimes == {0, ReadmissionWindowDays * TicksPerDay + 1}

---------------------------------------------------------------------------
(* Timedelta arithmetic *)

\* pandas Timedelta.days (.dt.days): whole days, rounded toward minus infinity
TimedeltaDays(delta) == IF delta >= 0 THEN delta \div TicksPerDay
                        ELSE -(((-delta) + TicksPerDay - 1) \div TicksPerDay)

\* PostgreSQL EXTRACT(DAY FROM interval) of a timestamp difference: the days
\* field of the interval, which has the sign of the difference
ExtractDay(delta) == IF delta >= 0 THEN delta \div TicksPerDay
                     ELSE -((-delta) \div TicksPerDay)

---------------------------------------------------------------------------
(* The in-memory computation, demo.py generate_sample_data *)

KeyLeq(a, b) == \/ a.patient_id < b.patient_id
                \/ /\ a.patient_id = b.patient_id
                   /\ a.admission_date <= b.admission_date

\* insert row r into the sorted sequence s behind every row whose key is
\* not greater (the multi-column sort of pandas is stable)
RECURSIVE InsertSorted(_, _)
InsertSorted(r, s) ==
    IF s = <<>> THEN <<r>>
    ELSE IF KeyLeq(s[1], r) THEN <<s[1]>> \o InsertSorted(r, Tail(s))
    ELSE <<r>> \o s

\* df.sort_values(['patient_id', 'admission_date'])
RECURSIVE SortValues(_)
SortValues(df) ==
    IF df = <<>> THEN <<>>
    ELSE InsertSorted(df[Len(df)], SortValues(SubSeq(df, 1, Len(df) - 1)))

\* groupby('patient_id')['admission_date'].shift(-1) at position i
ShiftNext(s, i) ==
    IF i < Len(s) /\ s[i + 1].patient_id = s[i].patient_id
    THEN Some(s[i + 1].admission_date)
    ELSE Null

\* (next_admission_date - discharge_date).dt.days, NaN when either is NaT
DaysToReadmission(next, discharge) ==
    IF IsNull(next) \/ IsNull(discharge) THEN Null
    ELSE Some(TimedeltaDays(Val(next) - Val(discharge)))

ReadmissionStatusOffByOne(days) ==
    ~IsNull(days) /\ Val(days) < ReadmissionWindowDays

\* days_to_readmission <= 30; a comparison with NaN is False
ReadmissionStatus(days) ==
    ~IsNull(days) /\ Val(days) <= ReadmissionWindowDays

\* demo.py lines 119-123 over a whole table; the row keeps the two helper
\* columns that line 126 drops
ComputeReadmission(df) ==
    LET s == SortValues(df) IN
    [i \in 1 .. Len(s) |->
        LET next == ShiftNext(s, i)
            days == DaysToReadmission(next, s[i].discharge_date)
        IN [admission_id |-> s[i].admission_id,
            patient_id |-> s[i].patient_id,
            admission_date |-> s[i].admission_date,
            discharge_date |-> s[i].discharge_date,
            next_admission_date |-> next,
            days_to_readmission |-> days,
            readmission_status |-> ReadmissionStatus(days)]]

---------------------------------------------------------------------------
(* The source-side query, extract.py extract_readmission_data *)

RowSet(df) == {df[i] : i \in 1 .. Len(df)}

\* LEAD(admission_date) OVER (PARTITION BY patient_id ORDER BY admission_date)
Lead(df, r) ==
    LET later == {x \in RowSet(df) : /\ x.patient_id = r.patient_id
                                     /\ x.admission_date > r.admission_date}
    IN IF later = {} THEN Null
       ELSE Some((CHOOSE x \in later :
                    \A y \in later : x.admission_date <= y.admission_date).admission_date)

\* CASE WHEN next IS NOT NULL AND next <= discharge + INTERVAL 'n days'
WasReadmitted(next, discharge, windowDays) ==
    /\ ~IsNull(next)
    /\ ~IsNull(discharge)
    /\ Val(next) <= Val(discharge) + windowDays * TicksPerDay

\* EXTRACT(DAY FROM (next_admission_date - discharge_date))
SqlDaysToReadmission(next, discharge) ==
    IF IsNull(next) \/ IsNull(discharge) THEN Null
    ELSE Some(ExtractDay(Val(next) - Val(discharge)))

RankedRow(df, r, windowDays) ==
    LET next == Lead(df, r) IN
    [patient_id |-> r.patient_id,
     admission_date |-> r.admission_date,
     discharge_date |-> r.discharge_date,
     next_admission_date |-> next,
     was_readmitted |-> WasReadmitted(next, r.discharge_date, windowDays),
     days_to_readmission |-> SqlDaysToReadmission(next, r.discharge_date)]

\* the rows of the query: WHERE discharge_date IS NOT NULL, ORDER BY
\* patient_id, admission_date
ReadmissionQuery(df, windowDays) ==
    LET kept == SelectSeq(SortValues(df), LAMBDA r : ~IsNull(r.discharge_date))
    IN [i \in 1 .. Len(kept) |-> RankedRow(df, kept[i], windowDays)]

---------------------------------------------------------------------------
(* Specification of the readmission computations *)

NotRun == [run |-> FALSE, rows |-> <<>>]
Ran(rows) == [run |-> TRUE, rows |-> rows]

\* the parts of the state a specification does not exercise stay as
\* constructed
ReadmIdle == source = "db" /\ admissions = <<>> /\ memOut = NotRun /\ sqlOut = NotRun
NoCall == [op |-> "none", data |-> <<>>, ret |-> Null, raised |-> FALSE, log |-> "none"]
EmptySink == [e \in {"patients", "admissions", "diagnoses", "treatments", "billing"} |-> {}]
LoadIdle == db = EmptySink /\ last = NoCall /\ sessions = 0

\* no table read yet
NoFrame == [kind |-> "none", origin |-> "csv", error |-> "none",
            cols |-> {}, rows |-> <<>>]
CleanIdle == frame = NoFrame /\ stage = 0 /\ before = NoFrame

NoTables == [admissions |-> NoFrame, patients |-> NoFrame,
             diagnoses |-> NoFrame, treatments |-> NoFrame]
NotCalled == [state |-> "none", cols |-> {}, rows |-> <<>>]
FeatIdle == featIn = NoTables /\ featOut = NotCalled

\* create_tables leaves the procedures table and the two association
\* tables empty; an association table has no key, so it is a list of pairs
EmptyAssoc == [procedures |-> {}, patient_diagnosis |-> <<>>,
               treatment_procedures |-> <<>>]
SinkIdle == assoc = EmptyAssoc /\ files = {}

\* preprocess_for_ml not yet called
NotPreprocessed == [state |-> "none", cols |-> {}, rows |-> <<>>, target |-> Null,
                    target_column |-> Null]
MlIdle == mlOut = NotPreprocessed

\* demo.py has not been started
NotStarted == [entity |-> "none", stage |-> "start", table |-> <<>>, invoked |-> <<>>,
               loaded |-> {}, failures |-> {}, exit |-> Null]
PipeIdle == pipe = NotStarted

\* PatientData.__init__: the two seed entries, the newer one first
Seed == <<[patient_id |-> 42, admission_date |-> 15, discharge_date |-> Some(18),
           admission_type |-> "emergency"],
          [patient_id |-> 87, admission_date |-> 14, discharge_date |-> Some(16),
           admission_type |-> "elective"]>>
NoResponse == [endpoint |-> "none", recent_admissions |-> <<>>, rates |-> <<>>]
AppIdle == recent_admissions = Seed /\ history = Seed /\ response = NoResponse

InitReadm ==
    /\ source \in {"demo", "db"}
    /\ admissions = <<>>
    /\ memOut = NotRun
    /\ sqlOut = NotRun
    /\ LoadIdle
    /\ CleanIdle
    /\ FeatIdle
    /\ SinkIdle
    /\ MlIdle
    /\ PipeIdle
    /\ AppIdle

\* demo.py lines 86-115: one more generated admission; patients are
\* generated in increasing order, dates are whole days, the discharge is
\* the admission plus a whole number of days
GenerateAdmission ==
    /\ source = "demo"
    /\ Len(admissions) < MaxRows
    /\ \E p \in Patients, day \in SampleDays, stay \in SampleStays :
         /\ admissions /= <<>> => admissions[Len(admissions)].patient_id <= p
         /\ admissions' = Append(admissions,
                [admission_id |-> Len(admissions) + 1,
                 patient_id |-> p,
                 admission_date |-> day * TicksPerDay,
                 discharge_date |-> Some((day + stay) * TicksPerDay)])
    /\ memOut' = NotRun
    /\ sqlOut' = NotRun
    /\ UNCHANGED <<source, notReadm>>

\* a row of the relational admissions table; (patient_id, admission_date)
\* is the natural key the loader keeps unique
InsertAdmission ==
    /\ source = "db"
    /\ Len(admissions) < MaxRows
    /\ \E p \in Patients, t \in AdmTimes, d \in {Null} \cup {Some(x) : x \in DisTimes} :
         /\ \A i \in 1 .. Len(admissions) :
               ~(admissions[i].patient_id = p /\ admissions[i].admission_date = t)
         /\ admissions' = Append(admissions,
                [admission_id |-> Len(admissions) + 1,
                 patient_id |-> p,
                 admission_date |-> t,
                 discharge_date |-> d])
    /\ memOut' = NotRun
    /\ sqlOut' = NotRun
    /\ UNCHANGED <<source, notReadm>>

\* demo.py lines 119-123
ComputeReadmissionStatus ==
    /\ admissions /= <<>>
    /\ ~memOut.run
    /\ memOut' = Ran(ComputeReadmission(admissions))
    /\ UNCHANGED <<source, admissions, sqlOut, notReadm>>

\* extract.py extract_readmission_data with its default window
ExtractReadmissionData ==
    /\ source = "db"
    /\ ~sqlOut.run
    /\ sqlOut' = Ran(ReadmissionQuery(admissions, ReadmissionWindowDays))
    /\ UNCHANGED <<source, admissions, memOut, notReadm>>

NextReadm ==
    \/ GenerateAdmission
    \/ InsertAdmission
    \/ ComputeReadmissionStatus
    \/ ExtractReadmissionData

SpecReadm == InitReadm /\ [][NextReadm]_vars


---------------------------------------------------------------------------
(* Claims about the readmission computations *)

WindowTicks == ReadmissionWindowDays * TicksPerDay

\* row s is the admission that follows row r in r's patient's sequence
\* ordered by admission_date
IsSuccessor(df, r, s) ==
    /\ s.patient_id = r.patient_id
    /\ s.admission_date > r.admission_date
    /\ \A x \in RowSet(df) :
          x.patient_id = r.patient_id /\ x.admission_date > r.admission_date
             => s.admission_date <= x.admission_date

\* the output of the in-memory computation holds the input rows, ordered
\* by (patient_id, admission_date)
SortedOutput(df, out) ==
    /\ Len(out) = Len(df)
    /\ {out[i].admission_id : i \in 1 .. Len(out)} = {df[i].admission_id : i \in 1 .. Len(df)}
    /\ \A i \in 1 .. Len(out) - 1 : KeyLeq(out[i], out[i + 1])

\* C1 on the generated sample: status(i) iff admission i+1 of the patient
\* exists, the discharge is not null and the next admission is at most the
\* window after the discharge
C1_InMemory ==
    (source = "demo" /\ memOut.run) =>
        LET out == memOut.rows IN
        /\ SortedOutput(admissions, out)
        /\ \A i \in 1 .. Len(out) :
              out[i].readmission_status <=>
                 /\ i < Len(out)
                 /\ out[i + 1].patient_id = out[i].patient_id
                 /\ ~IsNull(out[i].discharge_date)
                 /\ out[i + 1].admission_date <= Val(out[i].discharge_date) + WindowTicks

\* C1 on the query: every admission with a discharge has one result row,
\* flagged iff its successor exists and starts within the window; an
\* admission with a null discharge is never flagged
C1_Query ==
    sqlOut.run =>
        LET out == sqlOut.rows
            same(r, o) == o.patient_id = r.patient_id /\ o.admission_date = r.admission_date
        IN
        /\ \A r \in RowSet(admissions) :
              LET hits == {i \in 1 .. Len(out) : same(r, out[i])} IN
              IF IsNull(r.discharge_date) THEN hits = {}
              ELSE /\ Cardinality(hits) = 1
                   /\ \A i \in hits :
                         out[i].was_readmitted <=>
                            \E s \in RowSet(admissions) :
                               /\ IsSuccessor(admissions, r, s)
                               /\ s.admission_date <= Val(r.discharge_date) + WindowTicks
        /\ \A i \in 1 .. Len(out) : \E r \in RowSet(admissions) : same(r, out[i])

\* C1: for every patient and every admission i of the patient's admissions
\* sorted by admission_date, readmission_status(i) is true iff admission i+1
\* exists, discharge_date(i) is not null and admission_date(i+1) is at most
\* 30 days after discharge_date(i)
C1_ReadmissionStatusIffWithinWindow == C1_InMemory /\ C1_Query

\* a generated patient with a readmission exactly 30 days after discharge
\* (flagged) followed by one further than 30 days (not flagged)
C1_Witness ==
    /\ source = "demo"
    /\ memOut.run
    /\ \E i, j \in 1 .. Len(memOut.rows) :
          LET out == memOut.rows IN
          /\ out[i].readmission_status
          /\ out[i].days_to_readmission = Some(ReadmissionWindowDays)
          /\ j < Len(out)
          /\ out[j + 1].patient_id = out[j].patient_id
          /\ ~out[j].readmission_status

\* C10: for every admission with a non-null discharge_date, was_readmitted
\* of the query equals readmission_status of the in-memory computation and
\* the two days_to_readmission agree
C10_QueryEqualsInMemory ==
    (source = "db" /\ memOut.run /\ sqlOut.run) =>
        \A i \in 1 .. Len(sqlOut.rows) : \A j \in 1 .. Len(memOut.rows) :
            LET q == sqlOut.rows[i]
                m == memOut.rows[j]
            IN (q.patient_id = m.patient_id /\ q.admission_date = m.admission_date)
                  => /\ q.was_readmitted = m.readmission_status
                     /\ q.days_to_readmission = m.days_to_readmission

---------------------------------------------------------------------------
(* The relational sink, models/schema.py *)

Entities == {"patients", "admissions", "diagnoses", "treatments", "billing"}

\* the mapped columns of each entity; gender, discharge_date, outcome and
\* payment_status stand for the nullable payload columns, total_charges for
\* the three amounts of a billing row that must not be null
Columns(e) ==
    CASE e = "patients" -> {"id", "first_name", "last_name", "date_of_birth", "gender"}
      [] e = "admissions" -> {"id", "patient_id", "admission_date", "discharge_date"}
      [] e = "diagnoses" -> {"id", "icd_code", "description"}
      [] e = "treatments" -> {"id", "admission_id", "diagnosis_id", "start_date", "outcome"}
      [] e = "billing" -> {"id", "admission_id", "total_charges", "payment_status"}

\* columns declared nullable=False
NotNullable(e) ==
    CASE e = "patients" -> {"first_name", "last_name", "date_of_birth"}
      [] e = "admissions" -> {"patient_id"}
      [] e = "diagnoses" -> {"icd_code", "description"}
      [] e = "treatments" -> {"admission_id", "diagnosis_id"}
      [] e = "billing" -> {"admission_id", "total_charges"}

\* columns declared default=datetime.utcnow
DefaultNow(e) ==
    CASE e = "admissions" -> {"admission_date"}
      [] e = "treatments" -> {"start_date"}
      [] OTHER -> {}

\* ForeignKey columns and the table each refers to
ForeignKeys(e) ==
    CASE e = "admissions" -> {<<"patient_id", "patients">>}
      [] e = "treatments" -> {<<"admission_id", "admissions">>, <<"diagnosis_id", "diagnoses">>}
      [] e = "billing" -> {<<"admission_id", "admissions">>}
      [] OTHER -> {}

\* columns declared unique=True
UniqueColumns(e) == IF e = "diagnoses" THEN {"icd_code"} ELSE {}

---------------------------------------------------------------------------
(* The loader, etl/load.py *)

\* the columns each load_X passes to filter_by
NaturalKey(e) ==
    CASE e = "patients" -> {"first_name", "last_name", "date_of_birth"}
      [] e = "admissions" -> {"patient_id", "admission_date"}
      [] e = "diagnoses" -> {"icd_code"}
      [] e = "treatments" -> {"admission_id", "diagnosis_id", "start_date"}
      [] e = "billing" -> {"admission_id"}

\* the keys each load_X requires the record to hold before it opens a session
RequiredKeys(e) ==
    CASE e = "patients" -> {}
      [] e = "admissions" -> {"patient_id"}
      [] e = "diagnoses" -> {"icd_code"}
      [] e = "treatments" -> {"admission_id", "diagnosis_id"}
      [] e = "billing" -> {"admission_id"}

\* dict.get(key): None when the key is absent
Get(data, k) == IF k \in DOMAIN data THEN data[k] ELSE Null

MatchingNone(tables, e, data) == {}

\* session.query(E).filter_by(<natural key from the record>): column = value,
\* or column IS NULL for a None value
Matching(tables, e, data) ==
    {r \in tables[e] : \A k \in NaturalKey(e) : r[k] = Get(data, k)}

MaxOf(S) == CHOOSE x \in S : \A y \in S : y <= x

\* the autoincrement primary key of the next inserted row
NextId(tables, e) == MaxOf({0} \cup {Val(r.id) : r \in tables[e]}) + 1

\* timestamps a record may carry
LoadDates == {1}

\* datetime.utcnow() when a row is inserted: later than every timestamp a
\* record carries and than every timestamp stored by an earlier call
UtcNow(tables) ==
    MaxOf(LoadDates
          \cup {Val(r.admission_date) : r \in {x \in tables["admissions"] : ~IsNull(x.admission_date)}}
          \cup {Val(r.start_date) : r \in {x \in tables["treatments"] : ~IsNull(x.start_date)}}) + 1

\* what the database enforces at commit for the row written
ConstraintsOk(tables, e, row) ==
    /\ \A c \in NotNullable(e) : ~IsNull(row[c])
    /\ \A fk \in ForeignKeys(e) :
          IsNull(row[fk[1]]) \/ \E p \in tables[fk[2]] : p.id = row[fk[1]]
    /\ \A c \in UniqueColumns(e) :
          \A r \in tables[e] : r.id /= row.id => r[c] /= row[c]

OverwriteAll(row, data) ==
    [c \in DOMAIN row |-> IF c = "id" THEN row[c] ELSE Get(data, c)]

\* for key, value in data.items(): if hasattr(row, key): setattr(row, key, value)
Overwrite(row, data) ==
    [c \in DOMAIN row |-> IF c \in DOMAIN data THEN data[c] ELSE row[c]]

\* E(**data), session.add: the constructor takes the record's columns, the
\* insert fills the primary key and the utcnow defaults of columns left None
NewRow(tables, e, data) ==
    [c \in Columns(e) |->
        IF c = "id" THEN Some(NextId(tables, e))
        ELSE IF c \in DefaultNow(e) /\ IsNull(Get(data, c)) THEN Some(UtcNow(tables))
        ELSE Get(data, c)]

Outcome(tables, ret, raised, log) ==
    [db |-> tables, ret |-> ret, raised |-> raised, log |-> log]

\* the update branch on the row first() returned, then commit; an
\* SQLAlchemyError rolls back and returns None
UpdateOutcome(tables, e, row, data) ==
    LET new == Overwrite(row, data)
        kept == tables[e] \ {row}
    IN IF ConstraintsOk([tables EXCEPT ![e] = kept], e, new)
       THEN Outcome([tables EXCEPT ![e] = kept \cup {new}], new.id, FALSE, "updated")
       ELSE Outcome(tables, Null, FALSE, "error")

\* the create branch; a key that is no attribute of the entity makes the
\* constructor raise TypeError, which load_X does not catch
InsertOutcome(tables, e, data) ==
    IF ~(DOMAIN data \subseteq Columns(e))
    THEN Outcome(tables, Null, TRUE, "raised")
    ELSE LET new == NewRow(tables, e, data) IN
         IF ConstraintsOk(tables, e, new)
         THEN Outcome([tables EXCEPT ![e] = @ \cup {new}], new.id, FALSE, "created")
         ELSE Outcome(tables, Null, FALSE, "error")

\* the outcomes of one load_X(data) call on the sink `tables`
LoadOutcomes(tables, e, data) ==
    IF DOMAIN data = {} THEN {Outcome(tables, Null, FALSE, "nothing")}
    ELSE IF ~(RequiredKeys(e) \subseteq DOMAIN data)
    THEN {Outcome(tables, Null, FALSE, "missing")}
    ELSE LET found == Matching(tables, e, data) IN
         IF found /= {}
         THEN {UpdateOutcome(tables, e, row, data) : row \in found}
         ELSE {InsertOutcome(tables, e, data)}

\* session = self.Session(): one more session is open
OpenSession(n) == n + 1

CloseSessionUnlessRaised(n, raised) == IF raised THEN n ELSE n - 1

\* finally: session.close(), on every way out of the try block: the return
\* after commit, the return after rollback, and an exception passing through
CloseSession(n, raised) == n - 1

\* the sessions open after a load_X call that found n open: an empty record
\* and a record without its required key return before a session is opened
SessionsAfterLoad(n, o) ==
    IF o.log \in {"nothing", "missing"} THEN n
    ELSE CloseSession(OpenSession(n), o.raised)

---------------------------------------------------------------------------
(* Records handed to the loader *)

\* at most this many rows in the sink, all tables together
MaxSinkRows == 4

\* a dict entry that may be absent: c is <<>> (no key) or <<value>>
Opt(k, c) == IF c = <<>> THEN <<>> ELSE (k :> c[1])
Given(S) == {<<Some(x)>> : x \in S}
Maybe(S) == {<<>>} \cup Given(S)

\* age and icd_chapter are the derived columns of the cleaned tables, which
\* are no attributes of the entities
PatientRecords ==
    {Opt("first_name", fn) @@ ("last_name" :> Some("Doe")) @@ ("date_of_birth" :> Some(1))
        @@ Opt("gender", g) @@ Opt("age", x) :
        fn \in Maybe({"Ann", "Bob"}), g \in Maybe({"F"}), x \in Maybe({40})}

AdmissionRecords ==
    {Opt("patient_id", p) @@ Opt("admission_date", d) @@ Opt("discharge_date", dd) :
        p \in Maybe({1}), d \in Maybe(LoadDates), dd \in Maybe(LoadDates)}

DiagnosisRecords ==
    {Opt("icd_code", c) @@ Opt("description", d) @@ Opt("icd_chapter", x) :
        c \in Maybe({"E11", "I10"}), d \in Maybe({"text"}), x \in Maybe({"Other"})}

TreatmentRecords ==
    {("admission_id" :> Some(1)) @@ Opt("diagnosis_id", d) @@ Opt("start_date", s)
        @@ Opt("outcome", o) :
        d \in Maybe({1}), s \in Maybe(LoadDates), o \in Maybe({"improved"})}

BillingRecords ==
    {Opt("admission_id", a) @@ Opt("total_charges", t) @@ Opt("payment_status", s) :
        a \in Maybe({1}), t \in Maybe({100}), s \in Maybe({"paid"})}

RECURSIVE SumOver(_, _)
SumOver(S, f) == IF S = {} THEN 0
                 ELSE LET x == CHOOSE x \in S : TRUE IN f[x] + SumOver(S \ {x}, f)

\* number of rows in the sink
TotalRows(tables) == SumOver(Entities, [e \in Entities |-> Cardinality(tables[e])])

---------------------------------------------------------------------------
(* Specification of the loader *)

InitLoad ==
    /\ db = EmptySink
    /\ last = NoCall
    /\ sessions = 0
    /\ ReadmIdle
    /\ CleanIdle
    /\ FeatIdle
    /\ SinkIdle
    /\ MlIdle
    /\ PipeIdle
    /\ AppIdle

\* one call load_X(data): the whole call, commit or rollback included
LoadCall(op, e, data) ==
    /\ \E o \in LoadOutcomes(db, e, data) :
          /\ TotalRows(o.db) <= MaxSinkRows
          /\ db' = o.db
          /\ last' = [op |-> op, data |-> data, ret |-> o.ret, raised |-> o.raised,
                      log |-> o.log]
          /\ sessions' = SessionsAfterLoad(sessions, o)
    /\ UNCHANGED notLoad

load_patient == \E data \in PatientRecords : LoadCall("load_patient", "patients", data)
load_admission == \E data \in AdmissionRecords : LoadCall("load_admission", "admissions", data)
load_diagnosis == \E data \in DiagnosisRecords : LoadCall("load_diagnosis", "diagnoses", data)
load_treatment == \E data \in TreatmentRecords : LoadCall("load_treatment", "treatments", data)
load_billing == \E data \in BillingRecords : LoadCall("load_billing", "billing", data)

NextLoad ==
    \/ load_patient
    \/ load_admission
    \/ load_diagnosis
    \/ load_treatment
    \/ load_billing

SpecLoad == InitLoad /\ [][NextLoad]_vars

---------------------------------------------------------------------------
(* Claims about the loader *)

\* the natural key of each table as the specification states it
StatedKey(e) ==
    CASE e = "patients" -> {"first_name", "last_name", "date_of_birth"}
      [] e = "admissions" -> {"patient_id", "admission_date"}
      [] e = "diagnoses" -> {"icd_code"}
      [] e = "treatments" -> {"admission_id", "diagnosis_id", "start_date"}
      [] e = "billing" -> {"admission_id"}

\* C2: after any sequence of load_patient, load_admission, load_diagnosis,
\* load_treatment and load_billing calls from an empty sink, no table holds
\* two rows with the same natural key
C2_NaturalKeysUnique ==
    \A e \in Entities : \A r1, r2 \in db[e] :
        (\A k \in StatedKey(e) : r1[k] = r2[k]) => r1 = r2

\* a treatment was loaded a second time under its natural key and updated in
\* place, beside a patient, an admission and a diagnosis
C2_Witness ==
    /\ last.op = "load_treatment"
    /\ last.log = "updated"
    /\ Cardinality(db["treatments"]) = 1
    /\ \E r \in db["treatments"] : r.outcome = Some("improved")

\* C3: running the same upsert twice with an identical record leaves the
\* sink after the second call as it was after the first, and both calls
\* return the same row id
C3_SecondCallChangesNothing ==
    [][(last.op /= "none" /\ last'.op = last.op /\ last'.data = last.data)
          => (db' = db /\ last'.ret = last.ret)]_vars

\* the table a loader operation writes
EntityOf(op) ==
    CASE op = "load_patient" -> "patients"
      [] op = "load_admission" -> "admissions"
      [] op = "load_diagnosis" -> "diagnoses"
      [] op = "load_treatment" -> "treatments"
      [] op = "load_billing" -> "billing"

\* the rows of table e that carry the natural key of the record
SameKey(tables, e, data) ==
    {r \in tables[e] : \A k \in StatedKey(e) : r[k] = Get(data, k)}

\* row `new` is row `old` with exactly the supplied fields overwritten
OverwrittenBy(old, new, data) ==
    /\ new.id = old.id
    /\ \A c \in DOMAIN old \ {"id"} :
          new[c] = (IF c \in DOMAIN data THEN data[c] ELSE old[c])

C11_Step ==
    LET e == EntityOf(last'.op)
        data == last'.data
        found == SameKey(db, e, data)
    IN  /\ \A x \in Entities \ {e} : db'[x] = db[x]
        /\ found /= {} => ~IsNull(last'.ret)
        /\ (found /= {} /\ ~IsNull(last'.ret)) =>
              \E old \in found : \E new \in db'[e] :
                 /\ db'[e] = (db[e] \ {old}) \cup {new}
                 /\ OverwrittenBy(old, new, data)
                 /\ last'.ret = old.id
        /\ (found = {} /\ ~IsNull(last'.ret)) =>
              \E new \in db'[e] :
                 /\ new \notin db[e]
                 /\ db'[e] = db[e] \cup {new}
                 /\ \A r \in db[e] : r.id /= new.id
                 /\ \A c \in DOMAIN data : new[c] = data[c]
                 /\ last'.ret = new.id

\* C11: a load_X call that finds a row with the record's natural key
\* overwrites exactly the supplied fields of that row, keeps its other
\* fields, its id and every other row, adds no row and returns that id; a
\* call that finds none adds exactly one row holding the supplied fields and
\* changes no existing row.
C11_UpsertSemantics == [][C11_Step]_vars

\* a patient loaded again under its natural key without a gender: the row
\* keeps the gender it had
C11_Witness ==
    /\ last.op = "load_patient"
    /\ last.log = "updated"
    /\ "gender" \notin DOMAIN last.data
    /\ \E r \in db["patients"] : r.id = last.ret /\ r.gender = Some("F")

C23_Step ==
    LET e == EntityOf(last'.op) IN
    /\ ~last'.raised
    /\ IsNull(last'.ret) => db' = db
    /\ ~IsNull(last'.ret) => \E r \in db'[e] : r.id = last'.ret

\* C23: every load_X call returns the id of the row it created or updated,
\* or None, and never raises, also for a record with a key that is no field
\* of the entity, whether or not a row with its natural key exists; when it
\* returns None the sink is as it was
C23_LoadReturnsIdOrNone == [][C23_Step]_vars

\* C24: no session is open after any sequence of load_X and link_X calls:
\* each call closes the session it opened, whether it returns after commit,
\* returns after rollback, or raises
C24_NoSessionLeftOpen == sessions = 0

\* a load_X call raised, and a link_X call rolled back
C24_Witness ==
    /\ sessions = 0
    /\ \/ last.op = "load_patient" /\ last.raised
       \/ last.op = "link_patient_diagnosis" /\ last.log = "error"

---------------------------------------------------------------------------
(* The loader: association links, bulk load, file output *)

\* the tables the two ForeignKey columns of each association table refer to
LinkRefers(t) ==
    CASE t = "patient_diagnosis" -> <<"patients", "diagnoses">>
      [] t = "treatment_procedures" -> <<"treatments", "procedures">>

\* the primary keys a ForeignKey of an association table may hold
ParentIds(tables, links, e) ==
    IF e = "procedures" THEN {r.id : r \in links.procedures}
    ELSE {r.id : r \in tables[e]}

\* what one call on the sink gives back
SinkOutcome(tables, links, ret, raised, log) ==
    [db |-> tables, assoc |-> links, ret |-> ret, raised |-> raised, log |-> log]

LinkExistsNever(links, t, pair) == FALSE

\* SELECT 1 FROM t WHERE a = :a AND b = :b, .scalar()
LinkExists(links, t, pair) ==
    \E i \in 1..Len(links[t]) : links[t][i] = pair

\* the foreign keys the database checks on INSERT INTO t
LinkConstraintsOk(tables, links, t, pair) ==
    \A i \in 1..2 : pair[i] \in ParentIds(tables, links, LinkRefers(t)[i])

\* link_X(a, b): insert the pair unless the SELECT found it; True either
\* way, False after an SQLAlchemyError and rollback
LinkOutcome(tables, links, t, pair) ==
    IF LinkExists(links, t, pair)
    THEN SinkOutcome(tables, links, Some(TRUE), FALSE, "present")
    ELSE IF LinkConstraintsOk(tables, links, t, pair)
    THEN SinkOutcome(tables, [links EXCEPT ![t] = Append(@, pair)], Some(TRUE), FALSE, "linked")
    ELSE SinkOutcome(tables, links, Some(FALSE), FALSE, "error")

\* Procedure: cpt_code unique and not null, description not null (cost,
\* not null as well, goes with description)
ProcedureOk(table, row) ==
    /\ ~IsNull(row.cpt_code)
    /\ ~IsNull(row.description)
    /\ \A r \in table : r.cpt_code /= row.cpt_code

ProcedureId(table) == MaxOf({0} \cup {Val(r.id) : r \in table}) + 1

\* the rows of one INSERT statement, in order, up to the first the database
\* rejects
RECURSIVE InsertRows(_, _)
InsertRows(table, rows) ==
    IF rows = <<>> THEN [ok |-> TRUE, table |-> table]
    ELSE IF ~ProcedureOk(table, Head(rows)) THEN [ok |-> FALSE, table |-> table]
    ELSE InsertRows(table \cup {Head(rows) @@ ("id" :> Some(ProcedureId(table)))},
                    Tail(rows))

\* one multi-row INSERT (method='multi'): all of its rows or none
InsertChunk(table, chunk) ==
    LET r == InsertRows(table, chunk)
    IN IF r.ok THEN r ELSE [ok |-> FALSE, table |-> table]

Min(a, b) == IF a <= b THEN a ELSE b

\* df.to_sql(..., chunksize): one INSERT per chunk, stopping at the first
\* that fails with the earlier chunks written
RECURSIVE ToSql(_, _, _)
ToSql(table, rows, chunksize) ==
    IF rows = <<>> THEN [ok |-> TRUE, table |-> table]
    ELSE LET n == Min(chunksize, Len(rows))
             r == InsertChunk(table, SubSeq(rows, 1, n))
         IN IF r.ok THEN ToSql(r.table, SubSeq(rows, n + 1, Len(rows)), chunksize)
            ELSE r

NoRollback(begun, partial) == partial

\* leaving `with self.engine.begin()` on an exception: the transaction is
\* rolled back to the tables it began with
Rollback(begun, partial) == begun

\* load_to_database(df, "procedures", if_exists, chunksize=chunksize) on
\* the tables create_tables made: if_exists='fail' makes to_sql raise
\* ValueError, which is no SQLAlchemyError
LoadToDatabaseOutcome(tables, links, df, if_exists, chunksize) ==
    IF df = <<>> THEN SinkOutcome(tables, links, Some(FALSE), FALSE, "nothing")
    ELSE IF if_exists = "fail" THEN SinkOutcome(tables, links, Null, TRUE, "raised")
    ELSE LET r == ToSql(links.procedures, df, chunksize)
             partial == [links EXCEPT !.procedures = r.table]
         IN IF r.ok THEN SinkOutcome(tables, partial, Some(TRUE), FALSE, "loaded")
            ELSE SinkOutcome(tables, Rollback(links, partial), Some(FALSE), FALSE, "error")

\* a file name is its stem and its extension
FileName(filename) == filename.stem \o filename.ext

\* if not filename.endswith('.csv'): filename += '.csv'
CsvName(filename) ==
    IF filename.ext = ".csv" THEN FileName(filename) ELSE FileName(filename) \o ".csv"

\* if not filename.endswith(('.parquet', '.parq')): filename += '.parquet'
ParquetName(filename) ==
    IF filename.ext \in {".parquet", ".parq"} THEN FileName(filename)
    ELSE FileName(filename) \o ".parquet"

\* the directory after `name` has been written with `rows`
Put(dir, name, rows) ==
    {f \in dir : f.name /= name} \cup {[name |-> name, rows |-> rows]}

FileOutcome(dir, ret, log) == [files |-> dir, ret |-> ret, log |-> log]

\* save_to_csv / save_to_parquet(df, filename), `name` being the name with
\* its extension: None for an empty table; the path once written; None when
\* makedirs or the write raises, the file then being untouched or cut short
SaveOutcomes(dir, df, name) ==
    IF df = <<>> THEN {FileOutcome(dir, Null, "nothing")}
    ELSE {FileOutcome(Put(dir, name, df), Some(name), "saved"),
          FileOutcome(dir, Null, "error"),
          FileOutcome(Put(dir, name, <<>>), Null, "error")}

---------------------------------------------------------------------------
(* Specification of the sink: records, links, bulk load and files *)

\* at most this many rows in an association table, rows in a table handed
\* to the loader, and files in the directory
MaxLinks == 2
MaxFrameRows == 2
MaxFiles == 1

\* the load_X of each entity
LoaderOf(e) ==
    CASE e = "patients" -> "load_patient"
      [] e = "admissions" -> "load_admission"
      [] e = "diagnoses" -> "load_diagnosis"
      [] e = "treatments" -> "load_treatment"
      [] e = "billing" -> "load_billing"

\* the records of this specification: the empty record, complete records,
\* and records the database rejects (a null in a not-null column, a foreign
\* key 9 that no row has) or the constructor rejects (the derived column age)
SinkRecords(e) ==
    {<<>>} \cup
    CASE e = "patients" ->
            {[first_name |-> Some(fn), last_name |-> Some("Doe"), date_of_birth |-> Some(1)] :
                fn \in {"Ann", "Bob"}}
            \cup {[last_name |-> Some("Doe"), date_of_birth |-> Some(1)],
                  [first_name |-> Some("Cy"), last_name |-> Some("Doe"),
                   date_of_birth |-> Some(1), age |-> Some(40)]}
      [] e = "admissions" ->
            {[patient_id |-> Some(p), admission_date |-> Some(1)] : p \in {1, 9}}
      [] e = "diagnoses" ->
            {[icd_code |-> Some("E11"), description |-> Some("text")],
             [icd_code |-> Some("I10")]}
      [] e = "treatments" ->
            {[admission_id |-> Some(1), diagnosis_id |-> Some(d), start_date |-> Some(1)] :
                d \in {1, 9}}
      [] e = "billing" ->
            {[admission_id |-> Some(1), total_charges |-> Some(100)],
             [admission_id |-> Some(1)]}

\* the integer ids handed to link_X
LinkIds == {1, 2}

\* rows of a procedures table handed to load_to_database; the last has no
\* description
ProcedureRows ==
    {[cpt_code |-> Some("P1"), description |-> Some("text")],
     [cpt_code |-> Some("P2"), description |-> Null]}

Frames == UNION {[1..n -> ProcedureRows] : n \in 0..MaxFrameRows}

\* the tables handed to save_to_csv and save_to_parquet
SavedFrames == {df \in Frames : Len(df) <= 1 /\ \A i \in 1..Len(df) : ~IsNull(df[i].description)}

FileNames == {[stem |-> "out", ext |-> x] : x \in {"", ".csv", ".parq"}}

InitSink ==
    /\ db = EmptySink
    /\ last = NoCall
    /\ sessions = 0
    /\ SinkIdle
    /\ MlIdle
    /\ PipeIdle
    /\ AppIdle
    /\ ReadmIdle
    /\ CleanIdle
    /\ FeatIdle

\* load_X(data) for one of the five entities
load_record ==
    \E e \in Entities : \E data \in SinkRecords(e) : LoadCall(LoaderOf(e), e, data)

\* one call of link_X or load_to_database: the whole call, commit or
\* rollback included
SinkCall(op, data, o) ==
    /\ \A t \in {"patient_diagnosis", "treatment_procedures"} : Len(o.assoc[t]) <= MaxLinks
    /\ db' = o.db
    /\ assoc' = o.assoc
    /\ last' = [op |-> op, data |-> data, ret |-> o.ret, raised |-> o.raised, log |-> o.log]
    /\ sessions' = IF op = "load_to_database" THEN sessions
                   ELSE CloseSession(OpenSession(sessions), o.raised)
    /\ UNCHANGED <<files, notSink>>

link_patient_diagnosis ==
    \E a \in LinkIds, b \in LinkIds :
        SinkCall("link_patient_diagnosis",
                 [patient_id |-> Some(a), diagnosis_id |-> Some(b)],
                 LinkOutcome(db, assoc, "patient_diagnosis", <<Some(a), Some(b)>>))

link_treatment_procedure ==
    \E a \in LinkIds, b \in LinkIds :
        SinkCall("link_treatment_procedure",
                 [treatment_id |-> Some(a), procedure_id |-> Some(b)],
                 LinkOutcome(db, assoc, "treatment_procedures", <<Some(a), Some(b)>>))

load_to_database ==
    \E df \in Frames, if_exists \in {"append", "fail"}, chunksize \in 1..MaxFrameRows :
        SinkCall("load_to_database",
                 [df |-> df, table_name |-> "procedures", if_exists |-> if_exists,
                  chunksize |-> chunksize],
                 LoadToDatabaseOutcome(db, assoc, df, if_exists, chunksize))

\* one call of save_to_csv or save_to_parquet
SaveCall(op, df, filename, name) ==
    /\ \E o \in SaveOutcomes(files, df, name) :
          /\ Cardinality(o.files) <= MaxFiles
          /\ files' = o.files
          /\ last' = [op |-> op, data |-> [df |-> df, filename |-> filename],
                      ret |-> o.ret, raised |-> FALSE, log |-> o.log]
    /\ UNCHANGED <<db, sessions, assoc, notSink>>

save_to_csv ==
    \E df \in SavedFrames, filename \in FileNames :
        SaveCall("save_to_csv", df, filename, CsvName(filename))

save_to_parquet ==
    \E df \in SavedFrames, filename \in FileNames :
        SaveCall("save_to_parquet", df, filename, ParquetName(filename))

NextSink ==
    \/ load_record
    \/ link_patient_diagnosis
    \/ link_treatment_procedure
    \/ load_to_database
    \/ save_to_csv
    \/ save_to_parquet

SpecSink == InitSink /\ [][NextSink]_vars

---------------------------------------------------------------------------
(* Claims about the sink *)

\* the operations that return True or False
BoolOps == {"link_patient_diagnosis", "link_treatment_procedure", "load_to_database"}

\* the call ended in failure: it raised, or returned False (None for load_X)
Failed(call) ==
    \/ call.raised
    \/ IF call.op \in BoolOps THEN call.ret = Some(FALSE) ELSE IsNull(call.ret)

C12_Step ==
    (last'.op \in BoolOps \cup {LoaderOf(e) : e \in Entities} /\ Failed(last'))
        => (db' = db /\ assoc' = assoc)

\* C12: a load_to_database, load_X or link_X call that ends in failure, at
\* whatever point of its writes, leaves every table of the sink as it was
\* before the call
C12_FailedWriteLeavesSinkUnchanged == [][C12_Step]_vars

\* a bulk load whose first chunk was written before a later chunk failed
C12_Witness ==
    /\ last.op = "load_to_database"
    /\ last.ret = Some(FALSE)
    /\ last.data.chunksize = 1
    /\ Len(last.data.df) = 2
    /\ ProcedureOk(assoc.procedures, last.data.df[1])

\* the association table a link_X writes and the pair a call names
LinkTable(op) ==
    IF op = "link_patient_diagnosis" THEN "patient_diagnosis" ELSE "treatment_procedures"

LinkPair(call) ==
    IF call.op = "link_patient_diagnosis"
    THEN <<call.data.patient_id, call.data.diagnosis_id>>
    ELSE <<call.data.treatment_id, call.data.procedure_id>>

Occurrences(rows, pair) == Cardinality({i \in 1..Len(rows) : rows[i] = pair})

C13_Step ==
    /\ \A t \in {"patient_diagnosis", "treatment_procedures"} :
          \A i \in 1..Len(assoc'[t]) : Occurrences(assoc'[t], assoc'[t][i]) = 1
    /\ (/\ last'.op \in {"link_patient_diagnosis", "link_treatment_procedure"}
        /\ Occurrences(assoc[LinkTable(last'.op)], LinkPair(last')) > 0)
          => (assoc' = assoc /\ last'.ret = Some(TRUE))

\* C13: after every link_patient_diagnosis and link_treatment_procedure
\* call each pair is in its association table at most once, and linking a
\* pair the table already holds leaves the table as it was and returns True
C13_LinksAreASet == [][C13_Step]_vars

\* a pair linked a second time, in a table that holds two pairs
C13_Witness ==
    /\ last.op = "link_patient_diagnosis"
    /\ last.log = "present"
    /\ last.ret = Some(TRUE)
    /\ Len(assoc.patient_diagnosis) = 2

\* the call was given an empty table, or load_X an empty record
EmptyInput(call) ==
    IF call.op \in {"load_to_database", "save_to_csv", "save_to_parquet"}
    THEN call.data.df = <<>>
    ELSE call.op \in {LoaderOf(e) : e \in Entities} /\ DOMAIN call.data = {}

C14_Step ==
    EmptyInput(last') =>
        /\ db' = db /\ assoc' = assoc /\ files' = files
        /\ ~Failed(last')

\* C14: a loader call with an empty table (an empty record for load_X)
\* leaves the sink and the files unchanged and returns a result that is not
\* the one the operation returns when its write fails
C14_EmptyInputIsNoError == [][C14_Step]_vars

---------------------------------------------------------------------------
(* Transformer: strings *)

\* A string is the sequence of its characters.
Uppers == <<"A", "B", "C", "D", "E", "F", "G", "H", "I", "J", "K", "L", "M",
            "N", "O", "P", "Q", "R", "S", "T", "U", "V", "W", "X", "Y", "Z">>
Lowers == <<"a", "b", "c", "d", "e", "f", "g", "h", "i", "j", "k", "l", "m",
            "n", "o", "p", "q", "r", "s", "t", "u", "v", "w", "x", "y", "z">>
Digits == <<"0", "1", "2", "3", "4", "5", "6", "7", "8", "9">>
Whitespace == {" "}

IsIn(seq, c) == \E i \in 1 .. Len(seq) : seq[i] = c
IndexOf(seq, c) == CHOOSE i \in 1 .. Len(seq) : seq[i] = c
Translate(s, from, to) ==
    [i \in 1 .. Len(s) |-> IF IsIn(from, s[i]) THEN to[IndexOf(from, s[i])] ELSE s[i]]

\* str.lower, str.upper, str.strip, str.startswith
Lower(s) == Translate(s, Uppers, Lowers)
Upper(s) == Translate(s, Lowers, Uppers)
RECURSIVE LStrip(_)
LStrip(s) == IF s /= <<>> /\ Head(s) \in Whitespace THEN LStrip(Tail(s)) ELSE s
RECURSIVE RStrip(_)
RStrip(s) ==
    IF s /= <<>> /\ s[Len(s)] \in Whitespace
    THEN RStrip(SubSeq(s, 1, Len(s) - 1)) ELSE s
Strip(s) == RStrip(LStrip(s))
StartsWith(s, prefix) == Len(s) >= Len(prefix) /\ SubSeq(s, 1, Len(prefix)) = prefix
StartsWithAny(s, prefixes) == \E p \in prefixes : StartsWith(s, p)

\* Series.str.lower / .upper / .strip: a null stays null
StrLower(cell) == IF IsNull(cell) THEN Null ELSE Some(Lower(Val(cell)))
StrUpper(cell) == IF IsNull(cell) THEN Null ELSE Some(Upper(Val(cell)))
StrStrip(cell) == IF IsNull(cell) THEN Null ELSE Some(Strip(Val(cell)))

\* Series.astype(str): a null becomes the text of its representation, 'nan'
\* for the NaN of a table read from a file and 'None' for the None of a
\* table read from the database
AsStr(origin, cell) ==
    IF IsNull(cell)
    THEN (IF origin = "csv" THEN <<"n", "a", "n">> ELSE <<"N", "o", "n", "e">>)
    ELSE Val(cell)

\* A cell that is still text in a column that is to hold timestamps or
\* numbers; a parsed timestamp or number is Some(n).  The text of a
\* timestamp or number is written as its decimal digits.
Txt(s) == <<"str", s>>
IsTxt(cell) == Len(cell) = 2
RECURSIVE ParseInt(_)
ParseInt(s) ==
    IF s = <<>> THEN 0
    ELSE 10 * ParseInt(SubSeq(s, 1, Len(s) - 1)) + (IndexOf(Digits, s[Len(s)]) - 1)
Parsable(s) == s /= <<>> /\ \A i \in 1 .. Len(s) : IsIn(Digits, s[i])
Coerce(cell) ==
    IF IsTxt(cell)
    THEN (IF Parsable(cell[2]) THEN Some(ParseInt(cell[2])) ELSE Null)
    ELSE cell
\* pd.to_datetime(errors='coerce'), pd.to_numeric(errors='coerce')
ToDatetime(cell) == Coerce(cell)
ToNumeric(cell) == Coerce(cell)

---------------------------------------------------------------------------
(* Transformer: cleaning (etl/transform.py) *)

\* the current date, in days, and the length of a year in the age formula
Today == 20000
DaysPerYear == 365
PhoneLength == 10

OnlyDigits(s) == SelectSeq(s, LAMBDA c : IsIn(Digits, c))
DropCountryCodeNever(d) == d
DropCountryCode(d) == IF Len(d) > PhoneLength /\ Head(d) = "1" THEN Tail(d) ELSE d
FormatPhone(d) ==
    <<"(">> \o SubSeq(d, 1, 3) \o <<")", " ">> \o SubSeq(d, 4, 6) \o <<"-">>
        \o SubSeq(d, 7, Len(d))

clean_phone_number_digits(phone) ==
    IF phone = <<"n", "a", "n">> THEN <<>>
    ELSE LET cleaned == DropCountryCode(OnlyDigits(phone)) IN
         IF Len(cleaned) = PhoneLength THEN FormatPhone(cleaned) ELSE cleaned

_clean_phone_number(phone) ==
    IF phone = <<"n", "a", "n">> THEN <<>>
    ELSE LET cleaned == DropCountryCode(OnlyDigits(phone)) IN
         IF Len(cleaned) = PhoneLength THEN FormatPhone(cleaned) ELSE phone

get_icd_chapter_every_d(icd_code) ==
    IF IsNull(icd_code) THEN "unknown"
    ELSE IF StartsWithAny(Upper(Val(icd_code)), {<<"C">>, <<"D">>}) THEN "Neoplasms"
    ELSE "Other"

_get_icd_chapter(icd_code) ==
    IF IsNull(icd_code) THEN "unknown"
    ELSE LET code == Upper(Val(icd_code)) IN
         CASE StartsWithAny(code, {<<"A">>, <<"B">>}) ->
                  "Infectious and Parasitic Diseases"
           [] StartsWithAny(code, {<<"C">>, <<"D", "0">>, <<"D", "1">>,
                                   <<"D", "2">>, <<"D", "3">>, <<"D", "4">>}) ->
                  "Neoplasms"
           [] StartsWith(code, <<"E">>) ->
                  "Endocrine, Nutritional and Metabolic Diseases"
           [] StartsWith(code, <<"F">>) -> "Mental and Behavioral Disorders"
           [] StartsWith(code, <<"G">>) -> "Nervous System Diseases"
           [] StartsWith(code, <<"I">>) -> "Circulatory System Diseases"
           [] StartsWith(code, <<"J">>) -> "Respiratory Diseases"
           [] StartsWith(code, <<"K">>) -> "Digestive System Diseases"
           [] OTHER -> "Other"

\* pd.cut(age, bins, labels, right=False)
Bins == <<0, 18, 30, 45, 60, 75, 90, 120>>
Labels == <<"0-18", "19-30", "31-45", "46-60", "61-75", "76-90", "90+">>

CutRightClosed(age) ==
    IF IsNull(age) THEN Null
    ELSE LET hit == {i \in 1 .. Len(Labels) :
                        Bins[i] < Val(age) /\ Val(age) <= Bins[i + 1]} IN
         IF hit = {} THEN Null ELSE Some(Labels[CHOOSE i \in hit : TRUE])

Cut(age) ==
    IF IsNull(age) THEN Null
    ELSE LET hit == {i \in 1 .. Len(Labels) :
                        Bins[i] <= Val(age) /\ Val(age) < Bins[i + 1]} IN
         IF hit = {} THEN Null ELSE Some(Labels[CHOOSE i \in hit : TRUE])

\* (pd.Timestamp.now() - date_of_birth).dt.days // 365
Age(date_of_birth) ==
    IF IsNull(date_of_birth) THEN Null
    ELSE Some((Today - Val(date_of_birth)) \div DaysPerYear)

\* (discharge_date - admission_date).dt.days + 1
LengthOfStay(admission_date, discharge_date) ==
    IF IsNull(admission_date) \/ IsNull(discharge_date) THEN Null
    ELSE Some(TimedeltaDays(Val(discharge_date) - Val(admission_date)) + 1)

NoClip(x) == x

\* Series.clip(lower=0)
ClipLower(x) == IF IsNull(x) \/ Val(x) >= 0 THEN x ELSE Some(0)

\* Series.replace on admission_type
ReplaceAdmissionType(cell) ==
    CASE cell = Some(<<"e", "r">>) -> Some(<<"e", "m", "e", "r", "g", "e", "n", "c", "y">>)
      [] cell = Some(<<"e", "m">>) -> Some(<<"e", "m", "e", "r", "g", "e", "n", "c", "y">>)
      [] cell = Some(<<"e", "l", "e", "c", "t", "i", "v", "e">>) ->
             Some(<<"s", "c", "h", "e", "d", "u", "l", "e", "d">>)
      [] cell = Some(<<"u", "r", "g", "e", "n", "t">>) ->
             Some(<<"e", "m", "e", "r", "g", "e", "n", "c", "y">>)
      [] OTHER -> cell

\* a row with column k set (added when absent)
With(row, k, v) == [c \in DOMAIN row \cup {k} |-> IF c = k THEN v ELSE row[c]]
\* the columns among ks that a row has
Has(row, ks) == DOMAIN row \cap ks

TextColumns == {"first_name", "last_name", "gender", "address", "email",
                "insurance_provider"}

CleanPatientRow(origin, row) ==
    LET r1 == [c \in Has(row, TextColumns) |-> Some(Strip(AsStr(origin, row[c])))] @@ row
        r2 == [c \in Has(r1, {"phone"}) |->
                  Some(_clean_phone_number(AsStr(origin, r1[c])))] @@ r1
        r3 == [c \in Has(r2, {"email"}) |-> StrStrip(StrLower(r2[c]))] @@ r2
        r4 == [c \in Has(r3, {"date_of_birth"}) |-> ToDatetime(r3[c])] @@ r3
    IN  IF "date_of_birth" \in DOMAIN row
        THEN With(With(r4, "age", Age(r4["date_of_birth"])),
                  "age_group", Cut(Age(r4["date_of_birth"])))
        ELSE r4

CleanAdmissionRow(row) ==
    LET r1 == [c \in Has(row, {"admission_date", "discharge_date"}) |->
                  ToDatetime(row[c])] @@ row
        r2 == IF {"admission_date", "discharge_date"} \subseteq DOMAIN row
              THEN With(r1, "length_of_stay",
                        ClipLower(LengthOfStay(r1["admission_date"],
                                               r1["discharge_date"])))
              ELSE r1
        r3 == [c \in Has(r2, {"admission_type"}) |->
                  ReplaceAdmissionType(StrStrip(StrLower(r2[c])))] @@ r2
    IN  [c \in Has(r3, {"discharge_disposition"}) |-> StrStrip(StrLower(r3[c]))] @@ r3

CleanDiagnosisRow(row) ==
    LET r1 == [c \in Has(row, {"icd_code"}) |-> StrStrip(StrUpper(row[c]))] @@ row
        r2 == IF "icd_code" \in DOMAIN row
              THEN With(r1, "icd_chapter", Some(_get_icd_chapter(r1["icd_code"])))
              ELSE r1
    IN  [c \in Has(r2, {"description"}) |-> StrStrip(r2[c])] @@ r2

CleanTreatmentRow(row) ==
    LET r1 == [c \in Has(row, {"start_date", "end_date"}) |-> ToDatetime(row[c])] @@ row
    IN  [c \in Has(r1, {"outcome"}) |-> StrStrip(StrLower(r1[c]))] @@ r1

CleanBillingRow(row) ==
    LET r1 == [c \in Has(row, {"payment_status"}) |-> StrStrip(StrLower(row[c]))] @@ row
    IN  [c \in Has(r1, {"total_charges", "insurance_coverage",
                        "patient_responsibility"}) |-> ToNumeric(r1[c])] @@ r1

CleanRow(kind, origin, row) ==
    CASE kind = "patients" -> CleanPatientRow(origin, row)
      [] kind = "admissions" -> CleanAdmissionRow(row)
      [] kind = "diagnoses" -> CleanDiagnosisRow(row)
      [] kind = "treatments" -> CleanTreatmentRow(row)
      [] kind = "billing" -> CleanBillingRow(row)

\* the columns a cleaning operation reads through the .str accessor without
\* converting them to text first
StrColumns(kind) ==
    CASE kind = "patients" -> {}
      [] kind = "admissions" -> {"admission_type", "discharge_disposition"}
      [] kind = "diagnoses" -> {"icd_code", "description"}
      [] kind = "treatments" -> {"outcome"}
      [] kind = "billing" -> {"payment_status"}

\* A column read from a file that holds no value at all is a float64 column
\* of NaN, and the .str accessor refuses it (AttributeError); a column read
\* from the database holds None and is an object column.
StrAccessorFails(f) ==
    /\ f.origin = "csv"
    /\ \E c \in StrColumns(f.kind) \cap f.cols :
          \A i \in 1 .. Len(f.rows) : IsNull(f.rows[i][c])

CallersTableAliased(df, worked) == worked

\* df_clean = df.copy(): the operation assigns to the columns of a copy, so
\* the table the caller passed in keeps its rows, columns and values
CallersTable(df, worked) == df

CleanUnguarded(f) ==
    IF StrAccessorFails(f) THEN [f EXCEPT !.error = "AttributeError"]
    ELSE LET rows == [i \in 1 .. Len(f.rows) |-> CleanRow(f.kind, f.origin, f.rows[i])]
         IN  [f EXCEPT !.rows = rows]

\* clean_X(df): the table it returns, or the error it raises
Clean(f) ==
    IF f.rows = <<>> THEN f
    ELSE IF StrAccessorFails(f) THEN [f EXCEPT !.error = "AttributeError"]
    ELSE LET rows == [i \in 1 .. Len(f.rows) |-> CleanRow(f.kind, f.origin, f.rows[i])]
         IN  [f EXCEPT !.rows = rows, !.cols = DOMAIN rows[1]]

---------------------------------------------------------------------------
(* Transformer: the tables the cleaning operations are given *)

\* a table of the model has at most this many rows when it is cleaned, and a
\* cleaning operation is applied to it at most this many times
MaxCleanRows == 2
MaxCleanCalls == 2

EdgeAges == {Bins[i] - 1 : i \in 1 .. Len(Bins)} \cup {Bins[i] : i \in 1 .. Len(Bins)}
                \cup {19}
BirthDates ==
    {Null, Txt(<<"x">>), Txt(<<"7">>)}
        \cup {Some(Today - a * DaysPerYear) : a \in EdgeAges}
        \cup {Some(Today - a * DaysPerYear - (DaysPerYear - 1)) : a \in {-1, 17, 18}}
Phones ==
    {Null, Some(<<>>), Some(<<"n", "a", "n">>),
     Some(<<"1", "-", "5", "5", "5", "-", "1", "2", "3", "-", "4", "5", "6", "7">>),
     Some(<<"1", "2", "3", "4", "5">>),
     Some(<<"(", "5", "5", "5", ")", " ", "1", "2", "3", "-", "4", "5", "6", "7">>),
     Some(<<"5", "5", "5", "-", "1", "2", "3", "4">>),
     Some(<<"1", "1", "5", "5", "5", "1", "2", "3", "4", "5", "6", "7">>)}
Names == {Null, Some(<<" ", "A", "n", "n", " ">>)}
Emails == {Null, Some(<<" ", "A", "@", "b", " ">>)}

PatientDefault ==
    [patient_id |-> Some(1), first_name |-> Some(<<"A", "n", "n">>),
     last_name |-> Some(<<"D", "o", "e">>), gender |-> Some(<<"F">>),
     phone |-> Some(<<"5", "5", "5", "1", "2", "3", "4", "5", "6", "7">>),
     email |-> Some(<<"a", "@", "b">>),
     date_of_birth |-> Some(Today - 40 * DaysPerYear)]
PatientRows ==
    {[PatientDefault EXCEPT !.date_of_birth = d] : d \in BirthDates}
        \cup {[PatientDefault EXCEPT !.phone = p] : p \in Phones}
        \cup {[PatientDefault EXCEPT !.first_name = n, !.gender = n] : n \in Names}
        \cup {[PatientDefault EXCEPT !.email = e] : e \in Emails}

AdmissionDates == {Null, Some(1), Some(3 * TicksPerDay), Txt(<<"4">>)}
DischargeDates == {Null, Some(0), Some(3 * TicksPerDay), Txt(<<"x">>)}
AdmissionTypes ==
    {Null, Some(<<" ", "E", "R", " ">>), Some(<<"E", "m">>),
     Some(<<"E", "l", "e", "c", "t", "i", "v", "e">>),
     Some(<<"U", "R", "G", "E", "N", "T">>),
     Some(<<"e", "m", "e", "r", "g", "e", "n", "c", "y">>),
     Some(<<"s", "c", "h", "e", "d", "u", "l", "e", "d">>),
     Some(<<"t", "r", "a", "n", "s", "f", "e", "r">>)}
Dispositions == {Null, Some(<<" ", "H", "o", "m", "e">>)}

AdmissionDefault ==
    [admission_id |-> Some(1), patient_id |-> Some(1),
     admission_date |-> Some(0), discharge_date |-> Some(2 * TicksPerDay),
     admission_type |-> Some(<<"e", "r">>),
     discharge_disposition |-> Some(<<"h", "o", "m", "e">>),
     length_of_stay |-> Some(-1)]
AdmissionRows ==
    {[AdmissionDefault EXCEPT !.admission_date = a, !.discharge_date = d] :
        a \in AdmissionDates, d \in DischargeDates}
        \cup {[AdmissionDefault EXCEPT !.admission_type = t] : t \in AdmissionTypes}
        \cup {[AdmissionDefault EXCEPT !.discharge_disposition = d] : d \in Dispositions}

IcdCodes ==
    {Null, Some(<<" ", "e", "1", "1", ".", "9">>), Some(<<"i", "1", "0", " ">>),
     Some(<<"E", "1", "1", "9">>), Some(<<"D", "4", "9">>), Some(<<"D">>),
     Some(<<"d", "0", "5">>), Some(<<"D", "5", "0">>), Some(<<"z", "0", "0">>),
     Some(<<"a", "0", "1">>), Some(<<"b", "2">>), Some(<<"C", "3", "4">>),
     Some(<<"F", "3", "2">>), Some(<<"G", "4", "0">>), Some(<<"J", "4", "4">>),
     Some(<<"K", "2", "1">>)}
Descriptions == {Null, Some(<<" ", "d", " ">>)}
DiagnosisDefault ==
    [diagnosis_id |-> Some(1), patient_id |-> Some(1),
     icd_code |-> Some(<<"E", "1", "1">>), description |-> Some(<<"d">>)]
DiagnosisRows ==
    {[DiagnosisDefault EXCEPT !.icd_code = c] : c \in IcdCodes}
        \cup {[DiagnosisDefault EXCEPT !.description = d] : d \in Descriptions}

TreatmentDefault ==
    [treatment_id |-> Some(1), admission_id |-> Some(1), start_date |-> Some(0),
     end_date |-> Some(1), outcome |-> Some(<<"o", "k">>)]
TreatmentRows ==
    {[TreatmentDefault EXCEPT !.start_date = s, !.end_date = e] :
        s \in {Null, Some(0), Txt(<<"3">>), Txt(<<"x">>)}, e \in {Null, Some(1)}}
        \cup {[TreatmentDefault EXCEPT !.outcome = o] :
                o \in {Null, Some(<<" ", "O", "k", " ">>)}}

BillingDefault ==
    [billing_id |-> Some(1), admission_id |-> Some(1),
     payment_status |-> Some(<<"p", "a", "i", "d">>), total_charges |-> Some(100)]
BillingRows ==
    {[BillingDefault EXCEPT !.total_charges = c] :
        c \in {Null, Some(100), Txt(<<"1", "2">>), Txt(<<"1", "x">>)}}
        \cup {[BillingDefault EXCEPT !.payment_status = p] :
                p \in {Null, Some(<<" ", "P", "a", "i", "d">>)}}

Kinds == {"patients", "admissions", "diagnoses", "treatments", "billing"}

SampleRows(kind) ==
    CASE kind = "patients" -> PatientRows
      [] kind = "admissions" -> AdmissionRows
      [] kind = "diagnoses" -> DiagnosisRows
      [] kind = "treatments" -> TreatmentRows
      [] kind = "billing" -> BillingRows

\* the column sets a table of each kind comes with
Schemas(kind) ==
    CASE kind = "patients" ->
             {DOMAIN PatientDefault, {"patient_id", "first_name", "phone"}}
      [] kind = "admissions" ->
             {DOMAIN AdmissionDefault, DOMAIN AdmissionDefault \ {"length_of_stay"},
              {"admission_id", "admission_type", "length_of_stay"}}
      [] kind = "diagnoses" ->
             {DOMAIN DiagnosisDefault, {"diagnosis_id", "description"}}
      [] kind = "treatments" ->
             {DOMAIN TreatmentDefault, {"treatment_id", "outcome"}}
      [] kind = "billing" ->
             {DOMAIN BillingDefault, {"billing_id", "total_charges"}}

Restrict(row, cols) == [c \in cols |-> row[c]]

---------------------------------------------------------------------------
(* Transformer: cleaning as a state machine *)

InitClean ==
    /\ CleanIdle
    /\ ReadmIdle
    /\ LoadIdle
    /\ FeatIdle
    /\ SinkIdle
    /\ MlIdle
    /\ PipeIdle
    /\ AppIdle

Extract(origin) ==
    /\ frame.kind = "none"
    /\ \E kind \in Kinds : \E cols \in Schemas(kind) :
          frame' = [kind |-> kind, origin |-> origin, error |-> "none",
                    cols |-> cols, rows |-> <<>>]
    /\ UNCHANGED <<stage, before, notClean>>

extract_from_csv == Extract("csv")
extract_from_sql == Extract("sql")

\* the reader delivers one more row of the table
ReadRow ==
    /\ frame.kind /= "none"
    /\ stage = 0
    /\ frame.error = "none"
    /\ Len(frame.rows) < MaxCleanRows
    /\ \E row \in SampleRows(frame.kind) :
          frame' = [frame EXCEPT !.rows = Append(@, Restrict(row, frame.cols))]
    /\ UNCHANGED <<stage, before, notClean>>

CleanCall(kind) ==
    /\ frame.kind = kind
    /\ frame.error = "none"
    /\ stage < MaxCleanCalls
    /\ before' = CallersTable(frame, Clean(frame))
    /\ frame' = Clean(frame)
    /\ stage' = IF Clean(frame).error = "none" THEN stage + 1 ELSE stage
    /\ UNCHANGED notClean

clean_patient_data == CleanCall("patients")
clean_admission_data == CleanCall("admissions")
clean_diagnosis_data == CleanCall("diagnoses")
clean_treatment_data == CleanCall("treatments")
clean_billing_data == CleanCall("billing")

NextClean ==
    \/ extract_from_csv
    \/ extract_from_sql
    \/ ReadRow
    \/ clean_patient_data
    \/ clean_admission_data
    \/ clean_diagnosis_data
    \/ clean_treatment_data
    \/ clean_billing_data

SpecClean == InitClean /\ [][NextClean]_vars

---------------------------------------------------------------------------
(* Claims about cleaning *)

CleanedPatients ==
    frame.kind = "patients" /\ stage >= 1 /\ "date_of_birth" \in frame.cols

\* the first clean_patient_data call on a table with a phone column:
\* `before` holds the table as read, `frame` the table as cleaned
PhonesCleaned ==
    frame.kind = "patients" /\ stage = 1 /\ "phone" \in frame.cols

\* the result the claim states for the phone string p
ExpectedPhone(p) ==
    LET s == SelectSeq(p, LAMBDA c : c \in {"0", "1", "2", "3", "4", "5", "6", "7", "8", "9"})
        d == IF Len(s) = 11 /\ s[1] = "1" THEN SubSeq(s, 2, 11) ELSE s
    IN  IF Len(d) = 10
        THEN <<"(", d[1], d[2], d[3], ")", " ", d[4], d[5], d[6], "-",
               d[7], d[8], d[9], d[10]>>
        ELSE p

\* C15 as stated: every phone string becomes "(AAA) BBB-CCCC" when ten
\* digits remain after stripping non-digits and dropping the leading 1 of
\* eleven digits, and is returned unchanged in every other case
C15_PhoneFormattedIffTenDigits ==
    PhonesCleaned =>
        \A i \in 1 .. Len(frame.rows) :
            ~IsNull(before.rows[i]["phone"]) =>
                frame.rows[i]["phone"] = Some(ExpectedPhone(Val(before.rows[i]["phone"])))

\* C15 amended: as stated for every phone string but the text 'nan', which
\* becomes the empty string
C15_PhoneFormattedIffTenDigitsButNan ==
    PhonesCleaned =>
        \A i \in 1 .. Len(frame.rows) :
            ~IsNull(before.rows[i]["phone"]) =>
                frame.rows[i]["phone"] =
                    (IF Val(before.rows[i]["phone"]) = <<"n", "a", "n">> THEN Some(<<>>)
                     ELSE Some(ExpectedPhone(Val(before.rows[i]["phone"]))))

\* the claim's two examples, cleaned in one table
C15_Witness ==
    /\ PhonesCleaned
    /\ Len(frame.rows) = 2
    /\ before.rows[1]["phone"] =
          Some(<<"1", "-", "5", "5", "5", "-", "1", "2", "3", "-", "4", "5", "6", "7">>)
    /\ frame.rows[1]["phone"] =
          Some(<<"(", "5", "5", "5", ")", " ", "1", "2", "3", "-", "4", "5", "6", "7">>)
    /\ before.rows[2]["phone"] = Some(<<"1", "2", "3", "4", "5">>)
    /\ frame.rows[2]["phone"] = before.rows[2]["phone"]

\* the first clean_diagnosis_data call on a table with an icd_code column
CodesCleaned ==
    frame.kind = "diagnoses" /\ stage = 1 /\ "icd_code" \in frame.cols

\* the chapter the claim's prefix table gives the raw code, read without
\* regard to letter case and surrounding whitespace
ExpectedChapter(raw) ==
    IF IsNull(raw) THEN "unknown"
    ELSE LET s == Upper(Strip(Val(raw)))
             first == IF Len(s) >= 1 THEN s[1] ELSE ""
             second == IF Len(s) >= 2 THEN s[2] ELSE ""
         IN CASE first \in {"A", "B"} -> "Infectious and Parasitic Diseases"
              [] first = "C" \/ (first = "D" /\ second \in {"0", "1", "2", "3", "4"}) ->
                     "Neoplasms"
              [] first = "E" -> "Endocrine, Nutritional and Metabolic Diseases"
              [] first = "F" -> "Mental and Behavioral Disorders"
              [] first = "G" -> "Nervous System Diseases"
              [] first = "I" -> "Circulatory System Diseases"
              [] first = "J" -> "Respiratory Diseases"
              [] first = "K" -> "Digestive System Diseases"
              [] OTHER -> "Other"

\* C16: the icd_chapter clean_diagnosis_data derives is the chapter of the
\* prefix table for the raw code whatever its letter case and surrounding
\* whitespace, "Other" when no prefix matches (D5 to D9 included) and
\* "unknown" for a null code
C16_IcdChapterByPrefix ==
    CodesCleaned =>
        \A i \in 1 .. Len(frame.rows) :
            frame.rows[i]["icd_chapter"] = Some(ExpectedChapter(before.rows[i]["icd_code"]))

\* a lower-case code with leading whitespace and a null code in one table
C16_Witness ==
    /\ CodesCleaned
    /\ Len(frame.rows) = 2
    /\ before.rows[1]["icd_code"] = Some(<<" ", "e", "1", "1", ".", "9">>)
    /\ frame.rows[1]["icd_chapter"] = Some("Endocrine, Nutritional and Metabolic Diseases")
    /\ IsNull(before.rows[2]["icd_code"])
    /\ frame.rows[2]["icd_chapter"] = Some("unknown")

Emergency == <<"e", "m", "e", "r", "g", "e", "n", "c", "y">>
Scheduled == <<"s", "c", "h", "e", "d", "u", "l", "e", "d">>

\* the vocabulary word the claim's table gives a raw admission type
ExpectedType(raw) ==
    LET t == Strip(Lower(raw))
    IN  IF t \in {<<"e", "r">>, <<"e", "m">>, <<"u", "r", "g", "e", "n", "t">>, Emergency}
        THEN Emergency
        ELSE Scheduled

\* C26: after clean_admission_data every non-null admission_type is
\* emergency or scheduled, whatever the raw value: er, em and urgent give
\* emergency and elective gives scheduled, whatever the letter case and the
\* surrounding whitespace
C26_AdmissionTypeVocabulary ==
    (frame.kind = "admissions" /\ stage = 1 /\ "admission_type" \in frame.cols
        /\ frame.error = "none") =>
        \A i \in 1 .. Len(frame.rows) :
            LET raw == before.rows[i]["admission_type"]
                cell == frame.rows[i]["admission_type"]
            IN  /\ ~IsNull(cell) => Val(cell) \in {Emergency, Scheduled}
                /\ ~IsNull(raw) => cell = Some(ExpectedType(Val(raw)))

\* C6: clean_patient_data puts age 18 in the age_group "0-18" and age 19 in
\* the age_group "19-30".
C6_Age18InGroup0To18 ==
    CleanedPatients =>
        \A i \in 1 .. Len(frame.rows) :
            /\ frame.rows[i]["age"] = Some(18) => frame.rows[i]["age_group"] = Some("0-18")
            /\ frame.rows[i]["age"] = Some(19) => frame.rows[i]["age_group"] = Some("19-30")

\* the label of the bin [lo, hi) that holds age a, as the claim states it
ExpectedAgeGroup(a) ==
    CASE a < 0 -> Null
      [] 0 <= a /\ a < 18 -> Some("0-18")
      [] 18 <= a /\ a < 30 -> Some("19-30")
      [] 30 <= a /\ a < 45 -> Some("31-45")
      [] 45 <= a /\ a < 60 -> Some("46-60")
      [] 60 <= a /\ a < 75 -> Some("61-75")
      [] 75 <= a /\ a < 90 -> Some("76-90")
      [] 90 <= a /\ a < 120 -> Some("90+")
      [] OTHER -> Null

\* C7: after clean_patient_data every age a with 0 <= a < 120 carries the
\* label of the one bin [lo, hi) over the edges 0, 18, 30, 45, 60, 75, 90,
\* 120 with lo <= a < hi, and an age below 0 or at/above 120 carries no label.
C7_AgeGroupLeftClosedRightOpen ==
    CleanedPatients =>
        \A i \in 1 .. Len(frame.rows) :
            /\ frame.rows[i]["age"] = Age(frame.rows[i]["date_of_birth"])
            /\ IF IsNull(frame.rows[i]["age"])
               THEN IsNull(frame.rows[i]["age_group"])
               ELSE frame.rows[i]["age_group"] = ExpectedAgeGroup(Val(frame.rows[i]["age"]))

\* a cleaned table with a patient aged 18 in "19-30" and one aged 120
\* without a label
C7_Witness ==
    /\ CleanedPatients
    /\ \E i, j \in 1 .. Len(frame.rows) :
          /\ frame.rows[i]["age"] = Some(18)
          /\ frame.rows[i]["age_group"] = Some("19-30")
          /\ frame.rows[j]["age"] = Some(120)
          /\ IsNull(frame.rows[j]["age_group"])

CleanedAdmissions ==
    /\ frame.kind = "admissions"
    /\ stage >= 1
    /\ {"admission_date", "discharge_date"} \subseteq frame.cols

\* C8: after clean_admission_data no row that has its two dates carries a
\* negative length_of_stay, and a row whose discharge_date precedes its
\* admission_date carries 0.
C8_LengthOfStayNeverNegative ==
    CleanedAdmissions =>
        \A i \in 1 .. Len(frame.rows) :
            LET r == frame.rows[i] IN
            /\ IsNull(r["length_of_stay"])
                  <=> (IsNull(r["admission_date"]) \/ IsNull(r["discharge_date"]))
            /\ ~IsNull(r["length_of_stay"]) => Val(r["length_of_stay"]) >= 0
            /\ (~IsNull(r["length_of_stay"])
                    /\ Val(r["discharge_date"]) < Val(r["admission_date"]))
                  => r["length_of_stay"] = Some(0)

\* a cleaned row discharged three days before its admission, with 0 in place
\* of the -1 the table came with
C8_Witness ==
    /\ CleanedAdmissions
    /\ stage = 1
    /\ "length_of_stay" \in before.cols
    /\ \E i \in 1 .. Len(frame.rows) :
          /\ frame.rows[i]["admission_date"] = Some(3 * TicksPerDay)
          /\ frame.rows[i]["discharge_date"] = Some(0)
          /\ before.rows[i]["length_of_stay"] = Some(-1)
          /\ frame.rows[i]["length_of_stay"] = Some(0)

\* C9: applying a cleaning operation to its own output gives that output
\* back, for each of the five operations.
C9_CleaningIdempotent == stage >= 2 => frame = before

\* a patients table cleaned twice that holds a null phone (now the empty
\* string), a reformatted phone and a first name that was null
C9_Witness ==
    /\ stage = 2
    /\ frame.kind = "patients"
    /\ frame.origin = "csv"
    /\ "email" \in frame.cols
    /\ \E i, j \in 1 .. Len(frame.rows) :
          /\ frame.rows[i]["phone"] = Some(<<>>)
          /\ frame.rows[j]["phone"] =
                Some(<<"(", "5", "5", "5", ")", " ", "1", "2", "3", "-", "4", "5", "6", "7">>)
          /\ frame.rows[j]["first_name"] = Some(<<"n", "a", "n">>)

---------------------------------------------------------------------------
(* Transformer: engineer_features_for_readmission *)

\* all the tables of one call together hold at most this many rows
MaxFeatRows == 4

RequiredColumnsFewer == {"patient_id", "admission_date", "discharge_date", "admission_type"}
RequiredColumns == {"patient_id", "admission_date", "discharge_date",
                    "admission_type", "discharge_disposition"}
ColumnsToDrop == {"first_name", "last_name", "address", "phone", "email",
                  "insurance_policy_number"}
chronic_icd_prefixes ==
    {<<"E", "1", "1">>, <<"I", "1", "0">>, <<"I", "2", "5">>, <<"E", "7", "8">>,
     <<"E", "6", "6">>, <<"J", "4", "4">>, <<"N", "1", "8">>, <<"F", "3", "2">>}

Returned(cols, rows) == [state |-> "returned", cols |-> cols, rows |-> rows]
Raised(error) == [state |-> error, cols |-> {}, rows |-> <<>>]

\* sort_values(['patient_id', 'admission_date']): stable, a NaT goes last
FeatKeyLeq(a, b) ==
    \/ Val(a["patient_id"]) < Val(b["patient_id"])
    \/ /\ a["patient_id"] = b["patient_id"]
       /\ \/ IsNull(b["admission_date"])
          \/ /\ ~IsNull(a["admission_date"])
             /\ Val(a["admission_date"]) <= Val(b["admission_date"])
RECURSIVE FeatInsertSorted(_, _)
FeatInsertSorted(r, s) ==
    IF s = <<>> THEN <<r>>
    ELSE IF FeatKeyLeq(s[1], r) THEN <<s[1]>> \o FeatInsertSorted(r, Tail(s))
    ELSE <<r>> \o s
FeatSortValuesSkipped(df) == df

RECURSIVE FeatSortValues(_)
FeatSortValues(df) ==
    IF df = <<>> THEN <<>>
    ELSE FeatInsertSorted(df[Len(df)], FeatSortValues(SubSeq(df, 1, Len(df) - 1)))

\* groupby('patient_id').cumcount()
PrevAdmissionsCount(s, i) ==
    Cardinality({j \in 1 .. i - 1 : s[j]["patient_id"] = s[i]["patient_id"]})

\* groupby('patient_id')['admission_date'].diff().dt.days
DaysSinceLastAdmission(s, i) ==
    IF i > 1 /\ s[i - 1]["patient_id"] = s[i]["patient_id"]
          /\ ~IsNull(s[i]["admission_date"]) /\ ~IsNull(s[i - 1]["admission_date"])
    THEN Some(TimedeltaDays(Val(s[i]["admission_date"]) - Val(s[i - 1]["admission_date"])))
    ELSE Null

\* the calendar of a timestamp; day 0 is Wednesday 2020-01-01
MonthStarts == <<0, 31, 60, 91, 121, 152, 182, 213, 244, 274, 305, 335>>
DayOf(ts) == TimedeltaDays(ts)
Month(ts) == Cardinality({k \in 1 .. Len(MonthStarts) : MonthStarts[k] <= DayOf(ts)})
DayOfWeek(ts) == (DayOf(ts) + 2) % 7

\* lines 280-292: the columns derived from the sorted admissions
Derive(s, i) ==
    LET row == s[i]
        date == row["admission_date"]
        r1 == With(row, "prev_admissions_count", Some(PrevAdmissionsCount(s, i)))
        r2 == With(r1, "days_since_last_admission", DaysSinceLastAdmission(s, i))
        r3 == IF "length_of_stay" \in DOMAIN row THEN r2
              ELSE With(r2, "length_of_stay",
                        LengthOfStay(date, row["discharge_date"]))
        r4 == With(r3, "admission_month",
                   IF IsNull(date) THEN Null ELSE Some(Month(Val(date))))
        r5 == With(r4, "admission_dayofweek",
                   IF IsNull(date) THEN Null ELSE Some(DayOfWeek(Val(date))))
    IN  With(r5, "is_weekend",
             Some(IF ~IsNull(date) /\ DayOfWeek(Val(date)) \in {5, 6} THEN 1 ELSE 0))

\* pd.merge(left, right, on=key, how='left'): a column both sides have, other
\* than the key, is kept twice, under the suffixes _x and _y
Suffixed(c, overlap, suffix) == IF c \in overlap THEN c \o suffix ELSE c
Overlap(lcols, rcols, key) == (lcols \cap rcols) \ {key}
MergedRow(l, r, rcols, key) ==
    LET lcols == DOMAIN l
        ov == Overlap(lcols, rcols, key)
        fromLeft == {Suffixed(c, ov, "_x") : c \in lcols}
        fromRight == {Suffixed(c, ov, "_y") : c \in rcols \ {key}}
    IN  [c \in fromLeft \cup fromRight |->
            IF c \in fromLeft
            THEN l[CHOOSE lc \in lcols : Suffixed(lc, ov, "_x") = c]
            ELSE r[CHOOSE rc \in rcols \ {key} : Suffixed(rc, ov, "_y") = c]]
RECURSIVE Flatten(_)
Flatten(ss) == IF ss = <<>> THEN <<>> ELSE Head(ss) \o Flatten(Tail(ss))
LeftMerge(lrows, rrows, rcols, key) ==
    Flatten([i \in 1 .. Len(lrows) |->
        LET l == lrows[i]
            ms == SelectSeq(rrows, LAMBDA r : r[key] = l[key])
        IN  IF ms = <<>> THEN <<MergedRow(l, [c \in rcols |-> Null], rcols, key)>>
            ELSE [j \in 1 .. Len(ms) |-> MergedRow(l, ms[j], rcols, key)]])

\* groupby('admission_id').size() left-merged on admission_id, then
\* fillna(0): the number of treatment rows with the row's admission_id
TreatmentCount(treatments, admission_id) ==
    Cardinality({j \in 1 .. Len(treatments) :
                    /\ ~IsNull(admission_id)
                    /\ treatments[j]["admission_id"] = admission_id})

Usable(f, cols) == f.rows /= <<>> /\ cols \subseteq f.cols

\* lines 294-297
MergePatients(rows, patients) ==
    IF Usable(patients, {"patient_id"})
    THEN LeftMerge(rows, Clean(patients).rows, Clean(patients).cols, "patient_id")
    ELSE rows

\* lines 308-321, reached when the diagnoses step is skipped
Finish(rows, treatments) ==
    IF Usable(treatments, {"admission_id"}) /\ "admission_id" \notin DOMAIN rows[1]
    THEN Raised("KeyError")
    ELSE LET counted ==
                 IF Usable(treatments, {"admission_id"})
                 THEN [i \in 1 .. Len(rows) |->
                          With(rows[i], "treatment_count",
                               Some(TreatmentCount(treatments.rows,
                                                   rows[i]["admission_id"])))]
                 ELSE rows
             keep == DOMAIN counted[1] \ ColumnsToDrop
         IN  Returned(keep, [i \in 1 .. Len(counted) |-> Restrict(counted[i], keep)])

\* the whole call: the table it returns or the error it raises.  Line 303
\* reads the local name chronic_conditions before anything is assigned to
\* it, so the diagnoses step raises whenever it is entered.
Engineer(in) ==
    IF in.admissions.rows = <<>> THEN Returned({}, <<>>)
    ELSE IF ~(RequiredColumns \subseteq in.admissions.cols) THEN Raised("ValueError")
    ELSE LET s == FeatSortValues(in.admissions.rows)
             derived == [i \in 1 .. Len(s) |-> Derive(s, i)]
             merged == MergePatients(derived, in.patients)
         IN  IF Usable(in.diagnoses, {"patient_id", "icd_code"})
             THEN (IF \A j \in 1 .. Len(in.diagnoses.rows) :
                         IsNull(in.diagnoses.rows[j]["icd_code"])
                   THEN Raised("AttributeError")
                   ELSE Raised("UnboundLocalError"))
             ELSE Finish(merged, in.treatments)

\* the tables a call is given: cleaned admissions, as the file-based
\* extraction or extract_patient_admissions delivers them, and the other
\* three tables as read
FeatAdmissionRows ==
    {[AdmissionDefault EXCEPT !.admission_id = Some(k[1]), !.patient_id = Some(k[2]),
                              !.admission_date = Some(k[3]), !.discharge_date = d,
                              !.admission_type = Some(<<"e", "m", "e", "r", "g", "e", "n", "c", "y">>)]
        @@ [first_name |-> Some(<<"A", "n", "n">>), last_name |-> Some(<<"D", "o", "e">>),
            date_of_birth |-> Some(Today - 40 * DaysPerYear)] :
        k \in {<<1, 1, 0>>, <<2, 1, 5 * TicksPerDay + 1>>, <<2, 2, 0>>},
        d \in {Null, Some(2 * TicksPerDay)}}
FeatPatientRows ==
    {[PatientDefault EXCEPT !.patient_id = Some(k)] : k \in {1, 2}}
FeatDiagnosisRows ==
    {[DiagnosisDefault EXCEPT !.patient_id = Some(k), !.icd_code = c] :
        k \in {1, 2}, c \in {Null, Some(<<"E", "1", "1", ".", "9">>), Some(<<"Z", "0", "0">>)}}
FeatTreatmentRows ==
    {[TreatmentDefault EXCEPT !.admission_id = Some(k)] : k \in {1, 2}}

FeatTables == {"admissions", "patients", "diagnoses", "treatments"}
FeatRows(t) ==
    CASE t = "admissions" -> FeatAdmissionRows
      [] t = "patients" -> FeatPatientRows
      [] t = "diagnoses" -> FeatDiagnosisRows
      [] t = "treatments" -> FeatTreatmentRows
FeatSchemas(t) ==
    CASE t = "admissions" ->
             {RequiredColumns \cup {"admission_id"},
              RequiredColumns \cup {"admission_id", "first_name", "last_name",
                                    "date_of_birth"},
              RequiredColumns \cup {"length_of_stay"},
              (RequiredColumns \cup {"admission_id"}) \ {"discharge_disposition"}}
      [] t = "patients" -> {DOMAIN PatientDefault, {"first_name", "last_name"}}
      [] t = "diagnoses" -> {{"patient_id", "icd_code"}, {"diagnosis_id", "icd_code"}}
      [] t = "treatments" -> {DOMAIN TreatmentDefault, {"treatment_id", "outcome"}}

FeatTotalRows(in) ==
    Len(in.admissions.rows) + Len(in.patients.rows) + Len(in.diagnoses.rows)
        + Len(in.treatments.rows)

InitFeat ==
    /\ FeatIdle
    /\ ReadmIdle
    /\ LoadIdle
    /\ CleanIdle
    /\ SinkIdle
    /\ MlIdle
    /\ PipeIdle
    /\ AppIdle

\* one more row of one of the four tables; the first row fixes its columns
ProvideRow ==
    /\ featOut.state = "none"
    /\ FeatTotalRows(featIn) < MaxFeatRows
    /\ \E t \in FeatTables : \E row \in FeatRows(t) :
          \E cols \in (IF featIn[t].rows = <<>> THEN FeatSchemas(t) ELSE {featIn[t].cols}) :
             featIn' = [featIn EXCEPT ![t] =
                           [kind |-> t, origin |-> "csv", error |-> "none", cols |-> cols,
                            rows |-> Append(featIn[t].rows, Restrict(row, cols))]]
    /\ UNCHANGED <<featOut, notFeat>>

engineer_features_for_readmission ==
    /\ featOut.state = "none"
    /\ featOut' = Engineer(featIn)
    /\ featIn' = [featIn EXCEPT !.admissions =
                     CallersTable(@, [@ EXCEPT !.rows = featOut'.rows,
                                               !.cols = featOut'.cols])]
    /\ UNCHANGED notFeat

NextFeat ==
    \/ ProvideRow
    \/ engineer_features_for_readmission

SpecFeat == InitFeat /\ [][NextFeat]_vars

---------------------------------------------------------------------------
(* Transformer: preprocess_for_ml *)

\* the dtype of a column of a cleaned table: identifiers, counts and amounts
\* are numbers, parsed dates are datetime64, the labels of pd.cut are a
\* category, everything else is text (object)
NumberColumns == {"patient_id", "admission_id", "diagnosis_id", "treatment_id",
                  "billing_id", "age", "length_of_stay", "total_charges",
                  "insurance_coverage", "patient_responsibility"}
DatetimeColumns == {"date_of_birth", "admission_date", "discharge_date",
                    "start_date", "end_date"}
Dtype(c) ==
    CASE c \in NumberColumns -> "number"
      [] c \in DatetimeColumns -> "datetime"
      [] c = "age_group" -> "category"
      [] OTHER -> "object"

\* the thresholds of the grouping of infrequent categories: more than 20
\* distinct values, a share below 1 percent
MaxCategories == 20
RarePercent == 1

\* the chapter labels of icd_chapter, in the order of their characters
Chapters ==
    <<"Circulatory System Diseases", "Digestive System Diseases",
      "Endocrine, Nutritional and Metabolic Diseases",
      "Infectious and Parasitic Diseases", "Mental and Behavioral Disorders",
      "Neoplasms", "Nervous System Diseases", "Other", "Respiratory Diseases",
      "other", "unknown">>

\* the texts 'unknown' and 'other' in a column: a chapter label, or
\* characters
Unknown(c) == IF c = "icd_chapter" THEN "unknown" ELSE <<"u", "n", "k", "n", "o", "w", "n">>
Other(c) == IF c = "icd_chapter" THEN "other" ELSE <<"o", "t", "h", "e", "r">>

\* the characters of the model in code-point order, and the order of strings
CodePoints ==
    <<" ", "(", ")", "-", ".">> \o Digits \o <<"@">> \o Uppers \o <<"_">> \o Lowers
RECURSIVE StrLess(_, _)
StrLess(a, b) ==
    IF b = <<>> THEN FALSE
    ELSE IF a = <<>> THEN TRUE
    ELSE IF a[1] = b[1] THEN StrLess(Tail(a), Tail(b))
    ELSE IndexOf(CodePoints, a[1]) < IndexOf(CodePoints, b[1])
RECURSIVE Join(_)
Join(s) == IF s = <<>> THEN "" ELSE s[1] \o Join(Tail(s))

\* the order of two values of column c, and the name of the 0/1 column
\* get_dummies makes for value v
ValueLess(c, v, w) ==
    IF c = "icd_chapter" THEN IndexOf(Chapters, v) < IndexOf(Chapters, w)
    ELSE StrLess(v, w)
DummyName(c, v) == c \o "_" \o (IF c = "icd_chapter" THEN v ELSE Join(v))

\* Series.median() of a column, skipping nulls; the mean of the two middle
\* values may fall between two integers
Median(rows, c) ==
    LET S == {j \in 1 .. Len(rows) : ~IsNull(rows[j][c])}
        Rank(j) == Cardinality({k \in S : \/ Val(rows[k][c]) < Val(rows[j][c])
                                           \/ (rows[k][c] = rows[j][c] /\ k <= j)})
        At(r) == Val(rows[CHOOSE j \in S : Rank(j) = r][c])
        m == Cardinality(S)
        twice == IF m % 2 = 1 THEN 2 * At((m + 1) \div 2)
                 ELSE At(m \div 2) + At(m \div 2 + 1)
    IN  IF S = {} THEN Null
        ELSE IF twice % 2 = 0 THEN Some(twice \div 2)
        ELSE <<"half", twice>>

\* if the column has a null: fillna(median)
FillMedian(rows, c, i) ==
    IF IsNull(rows[i][c]) THEN Median(rows, c) ELSE rows[i][c]

\* fillna('unknown')
FillUnknown(c, cell) == IF IsNull(cell) THEN Unknown(c) ELSE Val(cell)

\* nunique() > 20: the values whose share is below 1 percent become 'other'
GroupRare(rows, c, i) ==
    LET v == FillUnknown(c, rows[i][c])
        distinct == {FillUnknown(c, rows[j][c]) : j \in 1 .. Len(rows)}
        count == Cardinality({j \in 1 .. Len(rows) : FillUnknown(c, rows[j][c]) = v})
    IN  IF Cardinality(distinct) > MaxCategories /\ 100 * count < RarePercent * Len(rows)
        THEN Other(c) ELSE v

MlReturned(cols, rows, target, target_column) ==
    [state |-> "returned", cols |-> cols, rows |-> rows, target |-> target,
     target_column |-> target_column]
MlRaised(error, target_column) ==
    [state |-> error, cols |-> {}, rows |-> <<>>, target |-> Null,
     target_column |-> target_column]

\* preprocess_for_ml(df, target_column) on a cleaned table: (df, None) for
\* an empty table; else the target column is split off, numeric nulls take
\* the median, text nulls 'unknown', rare values 'other', and get_dummies
\* replaces each text column by one 0/1 column per value but the first.
\* fillna('unknown') on a category column raises, 'unknown' being no
\* category of it.
Preprocess(f, target_column) ==
    IF f.rows = <<>> THEN MlReturned(f.cols, f.rows, Null, target_column)
    ELSE LET rows == f.rows
             split == IF IsNull(target_column) THEN {} ELSE {Val(target_column)} \cap f.cols
             target == IF split = {} THEN Null
                       ELSE Some([i \in 1 .. Len(rows) |-> rows[i][Val(target_column)]])
             cols == f.cols \ split
             numeric == {c \in cols : Dtype(c) = "number"}
             categorical == {c \in cols : Dtype(c) \in {"object", "category"}}
             kept == cols \ categorical
             Filled(c, i) == IF c \in numeric THEN FillMedian(rows, c, i) ELSE rows[i][c]
             Categories(c) == {GroupRare(rows, c, i) : i \in 1 .. Len(rows)}
             First(c) == CHOOSE v \in Categories(c) :
                             \A w \in Categories(c) : w = v \/ ValueLess(c, v, w)
             dummies == UNION {{<<c, v>> : v \in Categories(c) \ {First(c)}} :
                                  c \in categorical}
             Name(d) == DummyName(d[1], d[2])
             newcols == kept \cup {Name(d) : d \in dummies}
         IN  IF \E c \in categorical : Dtype(c) = "category"
             THEN MlRaised("TypeError", target_column)
             ELSE MlReturned(newcols,
                     [i \in 1 .. Len(rows) |->
                         [x \in newcols |->
                             IF x \in kept THEN Filled(x, i)
                             ELSE LET d == CHOOSE d \in dummies : Name(d) = x
                                  IN  Some(IF GroupRare(rows, d[1], i) = d[2] THEN 1 ELSE 0)]],
                     target, target_column)

---------------------------------------------------------------------------
(* Specification of the transformer: one operation at a time *)

\* the target columns preprocess_for_ml is asked for: none, a column no
\* table has, a column of the table
TargetColumns(f) ==
    {Null, Some("readmission_status")}
        \cup {Some(c) : c \in f.cols \cap {"length_of_stay", "icd_code", "phone"}}

\* preprocess_for_ml on the table read, empty or cleaned
preprocess_for_ml ==
    /\ frame.kind /= "none"
    /\ frame.error = "none"
    /\ frame.rows = <<>> \/ stage >= 1
    /\ mlOut.state = "none"
    /\ \E target_column \in TargetColumns(frame) :
          /\ mlOut' = Preprocess(frame, target_column)
          /\ frame' = CallersTable(frame, [frame EXCEPT !.rows = mlOut'.rows,
                                                       !.cols = mlOut'.cols])
    /\ UNCHANGED <<stage, before, readmVars, loadVars, featVars, sinkVars, pipeVars, appVars>>

\* an admissions table handed to engineer_features_for_readmission that
\* has columns and no row
ProvideEmpty ==
    /\ featOut.state = "none"
    /\ featIn.admissions.kind = "none"
    /\ \E cols \in FeatSchemas("admissions") :
          featIn' = [featIn EXCEPT !.admissions =
                        [kind |-> "admissions", origin |-> "csv", error |-> "none",
                         cols |-> cols, rows |-> <<>>]]
    /\ UNCHANGED <<featOut, notFeat>>

InitTransform ==
    /\ CleanIdle
    /\ FeatIdle
    /\ MlIdle
    /\ PipeIdle
    /\ AppIdle
    /\ ReadmIdle
    /\ LoadIdle
    /\ SinkIdle

\* the operations are pure functions of their arguments: a behaviour
\* exercises the cleaning operations and preprocess_for_ml on one table, or
\* engineer_features_for_readmission on four
NextTransform ==
    \/ FeatIdle /\ NextClean
    \/ FeatIdle /\ preprocess_for_ml
    \/ CleanIdle /\ MlIdle /\ NextFeat
    \/ CleanIdle /\ MlIdle /\ ProvideEmpty

SpecTransform == InitTransform /\ [][NextTransform]_vars

---------------------------------------------------------------------------
(* Claims about the feature table *)

\* C4: no column of the returned feature table holds first_name, last_name,
\* address, phone, email or insurance_policy_number values, whether under
\* its own name or under the name a merge gave it.
C4_NoIdentifierColumn ==
    featOut.state = "returned" =>
        \A c \in featOut.cols : \A id \in ColumnsToDrop :
            c \notin {id, id \o "_x", id \o "_y"}

\* C5: for a non-empty diagnoses table with patient_id and icd_code the call
\* returns a table in which every row's chronic_condition_count is the
\* number of its patient's diagnoses with a chronic prefix (0 when none).
C5_ChronicConditionCount ==
    (/\ featOut.state /= "none"
     /\ Usable(featIn.admissions, RequiredColumns)
     /\ Usable(featIn.diagnoses, {"patient_id", "icd_code"}))
        => /\ featOut.state = "returned"
           /\ "chronic_condition_count" \in featOut.cols
           /\ \A i \in 1 .. Len(featOut.rows) :
                  featOut.rows[i]["chronic_condition_count"] =
                      Some(Cardinality(
                          {j \in 1 .. Len(featIn.diagnoses.rows) :
                              LET d == featIn.diagnoses.rows[j] IN
                              /\ d["patient_id"] = featOut.rows[i]["patient_id"]
                              /\ ~IsNull(d["icd_code"])
                              /\ StartsWithAny(Val(d["icd_code"]), chronic_icd_prefixes)}))

\* C17: the feature table has exactly one row per row of the admissions
\* table, whatever the patients, diagnoses and treatments tables hold.
C17_OneRowPerAdmission ==
    featOut.state = "returned" => Len(featOut.rows) = Len(featIn.admissions.rows)

\* the columns the claim requires of the admissions table
StatedColumns == {"patient_id", "admission_date", "discharge_date", "admission_type",
                  "discharge_disposition"}

\* C18: for a non-empty admissions table that lacks one of the five required
\* columns the call raises the schema error (ValueError) and returns no
\* table, whatever the other three tables hold.
C18_MissingColumnRaises ==
    (/\ featOut.state /= "none"
     /\ featIn.admissions.rows /= <<>>
     /\ ~(StatedColumns \subseteq featIn.admissions.cols))
        => featOut = Raised("ValueError")

\* the schema error raised although the diagnoses step, which would raise
\* another error, was due
C18_Witness ==
    /\ featOut.state = "ValueError"
    /\ featIn.admissions.rows /= <<>>
    /\ "discharge_disposition" \notin featIn.admissions.cols
    /\ Usable(featIn.diagnoses, {"patient_id", "icd_code"})
    /\ Usable(featIn.treatments, {"admission_id"})

\* C19: an empty table comes back empty and without error from every
\* clean_X (the table itself), from preprocess_for_ml (the table and no
\* target) and, as the admissions table, from
\* engineer_features_for_readmission, whatever its columns, the target
\* column asked for and the other three tables.
C19_EmptyInEmptyOut ==
    /\ (before.kind /= "none" /\ before.rows = <<>>)
          => (frame = before /\ frame.error = "none")
    /\ (mlOut.state /= "none" /\ frame.rows = <<>>)
          => (/\ mlOut.state = "returned"
              /\ mlOut.rows = <<>>
              /\ mlOut.cols = frame.cols
              /\ IsNull(mlOut.target))
    /\ (featOut.state /= "none" /\ featIn.admissions.rows = <<>>)
          => (featOut.state = "returned" /\ featOut.rows = <<>>)

\* an empty diagnoses table of a file, with its columns, cleaned and then
\* preprocessed with one of its columns as the target
C19_Witness ==
    /\ before.kind = "diagnoses"
    /\ before.origin = "csv"
    /\ before.rows = <<>>
    /\ "icd_code" \in before.cols
    /\ stage >= 1
    /\ mlOut.state = "returned"
    /\ mlOut.target_column = Some("icd_code")

\* C20: for a non-empty treatments table with an admission_id column and an
\* admissions table that passed the required-column validation, the call
\* returns a table in which every row's treatment_count is the number of
\* treatment rows with the row's admission_id (0 when there is none).  The
\* diagnoses step, which raises on its own, is left out of the statement.
C20_TreatmentCount ==
    (/\ featOut.state /= "none"
     /\ Usable(featIn.admissions, StatedColumns)
     /\ Usable(featIn.treatments, {"admission_id"})
     /\ ~Usable(featIn.diagnoses, {"patient_id", "icd_code"}))
        => /\ featOut.state = "returned"
           /\ "treatment_count" \in featOut.cols
           /\ \A i \in 1 .. Len(featOut.rows) :
                  featOut.rows[i]["treatment_count"] =
                      Some(Cardinality(
                          {j \in 1 .. Len(featIn.treatments.rows) :
                              /\ ~IsNull(featOut.rows[i]["admission_id"])
                              /\ featIn.treatments.rows[j]["admission_id"] =
                                     featOut.rows[i]["admission_id"]}))

\* the admissions given already carry a length_of_stay column, as cleaned
\* admissions do, or carry none
Stay(row) == row["length_of_stay"]
InputStaysClean ==
    "length_of_stay" \in featIn.admissions.cols =>
        \A j \in 1 .. Len(featIn.admissions.rows) :
            IsNull(Stay(featIn.admissions.rows[j])) \/ Val(Stay(featIn.admissions.rows[j])) >= 0

\* C25: every row of the feature table has a length_of_stay that is null or
\* at least 0, also when the column is derived by the call itself because
\* the admissions given lack it and a discharge_date precedes its
\* admission_date
C25_LengthOfStayNonNegative ==
    (featOut.state = "returned" /\ InputStaysClean) =>
        \A i \in 1 .. Len(featOut.rows) :
            "length_of_stay" \in DOMAIN featOut.rows[i] =>
                IsNull(Stay(featOut.rows[i])) \/ Val(Stay(featOut.rows[i])) >= 0

\* the number of rows of the admissions given that belong to the patient of
\* `row` and have an earlier admission_date
EarlierAdmissions(row) ==
    Cardinality({j \in 1 .. Len(featIn.admissions.rows) :
                    LET other == featIn.admissions.rows[j] IN
                    /\ other["patient_id"] = row["patient_id"]
                    /\ ~IsNull(other["admission_date"]) /\ ~IsNull(row["admission_date"])
                    /\ Val(other["admission_date"]) < Val(row["admission_date"])})

\* no two rows of one patient have the same admission_date, and none is null
DistinctAdmissionDates ==
    \A j, k \in 1 .. Len(featIn.admissions.rows) :
        LET a == featIn.admissions.rows[j]
            b == featIn.admissions.rows[k]
        IN  /\ ~IsNull(a["admission_date"])
            /\ (j /= k /\ a["patient_id"] = b["patient_id"])
                  => a["admission_date"] /= b["admission_date"]

\* C27 as stated: for every admissions table, in whatever order its rows
\* come, each output row's prev_admissions_count is the number of earlier
\* admissions of its patient, which does not depend on the order of the rows
C27_PrevAdmissionsCount ==
    featOut.state = "returned" =>
        \A i \in 1 .. Len(featOut.rows) :
            featOut.rows[i]["prev_admissions_count"] = Some(EarlierAdmissions(featOut.rows[i]))

\* C27 amended: the same, for admissions tables in which the rows of a
\* patient have pairwise distinct, non-null admission dates
C27_PrevAdmissionsCountDistinctDates ==
    (featOut.state = "returned" /\ DistinctAdmissionDates) =>
        \A i \in 1 .. Len(featOut.rows) :
            featOut.rows[i]["prev_admissions_count"] = Some(EarlierAdmissions(featOut.rows[i]))

\* two admissions of one patient, the later one first in the input, and an
\* admission of another patient after them
C27_Witness ==
    /\ featOut.state = "returned"
    /\ DistinctAdmissionDates
    /\ Len(featIn.admissions.rows) = 3
    /\ featIn.admissions.rows[1]["patient_id"] = featIn.admissions.rows[2]["patient_id"]
    /\ Val(featIn.admissions.rows[1]["admission_date"])
          > Val(featIn.admissions.rows[2]["admission_date"])
    /\ featIn.admissions.rows[3]["patient_id"] /= featIn.admissions.rows[1]["patient_id"]
    /\ \E i \in 1 .. Len(featOut.rows) :
          featOut.rows[i]["prev_admissions_count"] = Some(1)

\* what a step of the transformer calls
CleanCalled == stage' = stage + 1 \/ frame'.error /= frame.error
EngineerCalled == featOut' /= featOut
PreprocessCalled == mlOut' /= mlOut

C28_Step ==
    /\ CleanCalled => before' = frame
    /\ EngineerCalled => featIn' = featIn
    /\ PreprocessCalled => frame' = frame

\* C28: no transformer operation changes a table passed to it: after a
\* clean_X, engineer_features_for_readmission or preprocess_for_ml call the
\* caller's tables have the rows, columns and values they had before it
C28_InputsNotMutated == [][C28_Step]_vars

\* a cleaning call returned a table that differs from the one passed in
C28_Witness ==
    /\ stage = 1
    /\ before.rows /= <<>>
    /\ frame.rows /= before.rows

\* the columns of the table passed in that preprocess_for_ml treats as
\* categorical: text and category columns other than the target
CategoricalColumns ==
    {c \in frame.cols : Dtype(c) \in {"object", "category"}}
        \ (IF IsNull(mlOut'.target_column) THEN {} ELSE {Val(mlOut'.target_column)})

\* the value the claim gives row i of column c
StatedValue(c, i) ==
    LET Fill(j) == IF IsNull(frame.rows[j][c]) THEN Unknown(c) ELSE Val(frame.rows[j][c])
        share == Cardinality({j \in 1 .. Len(frame.rows) : Fill(j) = Fill(i)})
    IN  IF /\ Cardinality({Fill(j) : j \in 1 .. Len(frame.rows)}) > 20
           /\ 100 * share < Len(frame.rows)
        THEN Other(c) ELSE Fill(i)

\* the returned table holds value v in row i of the indicator columns of c:
\* the indicator of v is 1, or v is the dropped first category; every other
\* indicator of c is 0
Indicates(c, i, v) ==
    \A w \in {StatedValue(c, j) : j \in 1 .. Len(frame.rows)} :
        DummyName(c, w) \in mlOut'.cols =>
            mlOut'.rows[i][DummyName(c, w)] = Some(IF w = v THEN 1 ELSE 0)

C29_Step ==
    (PreprocessCalled /\ frame.rows /= <<>>) =>
        /\ mlOut'.state = "returned"
        /\ \A c \in CategoricalColumns : \A i \in 1 .. Len(frame.rows) :
              Indicates(c, i, StatedValue(c, i))

\* C29: preprocess_for_ml gives every categorical column 'unknown' for its
\* nulls and 'other' for exactly the values that occur in fewer than 1% of
\* the rows of a column with more than 20 distinct values; a column with 20
\* or fewer distinct values keeps its values
C29_CategoricalFillAndGrouping == [][C29_Step]_vars

---------------------------------------------------------------------------
(* The demonstration run: demo.py main and run_etl_pipeline over the        *)
(* pipeline orchestrator.  etl/pipeline.py is not among the sources; the    *)
(* stages of ETLPipeline follow section 4.4 of the specification.           *)

\* at most this many rows in the file of one entity
MaxPipeRows == 1

\* run_etl_pipeline: run_patient_etl, run_admission_etl, run_readmission_analysis,
\* one call after the other; then main calls analyze_readmission_rates
NextEntityRepeated(e) ==
    CASE e \in {"none", "patients"} -> "patients"
      [] e = "admissions" -> "readmission"
      [] OTHER -> "report"

NextEntity(e) ==
    CASE e = "none" -> "patients"
      [] e = "patients" -> "admissions"
      [] e = "admissions" -> "readmission"
      [] OTHER -> "report"

\* the first stage of an entity's run
FirstStage(e) ==
    CASE e \in {"patients", "admissions"} -> "extract"
      [] e = "readmission" -> "analysis"
      [] OTHER -> "analyze"

\* Extract -> Clean -> Load
NextStage(st) == IF st = "extract" THEN "clean" ELSE "load"

\* the failures of section 7 a stage can end in
Causes(st) ==
    CASE st = "extract" -> {"SourceNotFoundError", "SourceFormatError"}
      [] st = "clean" -> {"SchemaError"}
      [] st = "load" -> {"ConnectionError"}
      [] OTHER -> {"SourceNotFoundError", "PersistenceError"}

\* the rows a raw file of the entity may hold
PipeRecords(e) == IF e = "patients" THEN PatientRecords ELSE AdmissionRecords

RECURSIVE SeqsUpTo(_, _)
SeqsUpTo(S, n) ==
    IF n = 0 THEN {<<>>}
    ELSE LET shorter == SeqsUpTo(S, n - 1)
         IN shorter \cup {Append(t, x) : t \in {u \in shorter : Len(u) = n - 1}, x \in S}

\* the Load stage: load_X for each row in turn, each call its own
\* transaction; the first call that returns None or raises fails the stage
RECURSIVE LoadRows(_, _, _, _)
LoadRows(tables, n, e, rows) ==
    IF rows = <<>> THEN {[db |-> tables, sessions |-> n, cause |-> Null]}
    ELSE UNION {IF o.raised \/ IsNull(o.ret)
                THEN {[db |-> o.db, sessions |-> SessionsAfterLoad(n, o),
                       cause |-> Some(IF o.raised THEN "TypeError" ELSE "PersistenceError")]}
                ELSE LoadRows(o.db, SessionsAfterLoad(n, o), e, Tail(rows))
                : o \in LoadOutcomes(tables, e, Head(rows))}

\* the failure handed to the caller
Tagged(e, st, cause) == [entity |-> e, stage |-> st, cause |-> cause]

\* a stage ended well: the next stage of the entity, or the next call of
\* run_etl_pipeline after the entity's Load stage
Advance(p, e, st, table, done) ==
    [p EXCEPT !.entity = IF done THEN NextEntity(e) ELSE e,
              !.stage = IF done THEN FirstStage(NextEntity(e)) ELSE NextStage(st),
              !.table = IF done THEN <<>> ELSE table,
              !.invoked = Append(@, <<e, st>>),
              !.loaded = IF done /\ st = "load" THEN @ \cup {e} ELSE @]

\* a stage failed: the entity's run ends and the tagged failure goes to the
\* caller, as an exception (main logs it and returns 1) or as the return
\* value of run_X (which run_etl_pipeline does not look at)
Halt(p, e, st, cause, how) ==
    [p EXCEPT !.entity = IF how = "raised" THEN "none" ELSE NextEntity(e),
              !.stage = IF how = "raised" THEN "done" ELSE FirstStage(NextEntity(e)),
              !.table = <<>>,
              !.invoked = Append(@, <<e, st>>),
              !.failures = @ \cup {Tagged(e, st, cause)},
              !.exit = IF how = "raised" THEN Some(1) ELSE @]

Hows == {"raised", "returned"}

---------------------------------------------------------------------------
(* Specification of the demonstration run *)

InitPipe ==
    /\ pipe = NotStarted
    /\ LoadIdle
    /\ ReadmIdle
    /\ CleanIdle
    /\ FeatIdle
    /\ SinkIdle
    /\ MlIdle
    /\ AppIdle

\* main: setup_environment, generate_sample_data, then run_etl_pipeline
\* builds the ETLPipeline and makes its first call
main ==
    /\ pipe.stage = "start"
    /\ pipe' = [pipe EXCEPT !.entity = NextEntity("none"),
                            !.stage = FirstStage(NextEntity("none"))]
    /\ UNCHANGED <<loadVars, notPipe>>

\* Extract(entity): reads the raw file
extract_stage ==
    /\ pipe.stage = "extract"
    /\ \/ \E table \in SeqsUpTo(PipeRecords(pipe.entity), MaxPipeRows) :
             pipe' = Advance(pipe, pipe.entity, "extract", table, FALSE)
       \/ \E cause \in Causes("extract"), how \in Hows :
             pipe' = Halt(pipe, pipe.entity, "extract", cause, how)
    /\ UNCHANGED <<loadVars, notPipe>>

\* Clean(entity): the rows stay in the form the loader takes; the derived
\* column a cleaned patient row carries is part of the sample rows
clean_stage ==
    /\ pipe.stage = "clean"
    /\ \/ pipe' = Advance(pipe, pipe.entity, "clean", pipe.table, FALSE)
       \/ \E cause \in Causes("clean"), how \in Hows :
             pipe' = Halt(pipe, pipe.entity, "clean", cause, how)
    /\ UNCHANGED <<loadVars, notPipe>>

\* Load(entity)
load_stage ==
    /\ pipe.stage = "load"
    /\ \/ \E r \in LoadRows(db, sessions, pipe.entity, pipe.table) :
             /\ db' = r.db
             /\ sessions' = r.sessions
             /\ \/ /\ IsNull(r.cause)
                   /\ pipe' = Advance(pipe, pipe.entity, "load", <<>>, TRUE)
                \/ /\ ~IsNull(r.cause)
                   /\ \E how \in Hows :
                         pipe' = Halt(pipe, pipe.entity, "load", Val(r.cause), how)
       \/ /\ \E cause \in Causes("load"), how \in Hows :
                pipe' = Halt(pipe, pipe.entity, "load", cause, how)
          /\ UNCHANGED <<db, sessions>>
    /\ UNCHANGED <<last, notPipe>>

\* run_readmission_analysis: compute the windowed readmission data and
\* persist it as the analytic table
run_readmission_analysis ==
    /\ pipe.stage = "analysis"
    /\ \/ pipe' = Advance(pipe, "readmission", "analysis", <<>>, TRUE)
       \/ \E cause \in Causes("analysis"), how \in Hows :
             pipe' = Halt(pipe, "readmission", "analysis", cause, how)
    /\ UNCHANGED <<loadVars, notPipe>>

\* analyze_readmission_rates returns (a missing parquet file is logged
\* there), and main returns 0
analyze_readmission_rates ==
    /\ pipe.stage = "analyze"
    /\ pipe' = [pipe EXCEPT !.entity = "none", !.stage = "done", !.exit = Some(0)]
    /\ UNCHANGED <<loadVars, notPipe>>

NextPipe ==
    \/ main
    \/ extract_stage
    \/ clean_stage
    \/ load_stage
    \/ run_readmission_analysis
    \/ analyze_readmission_rates

SpecPipe == InitPipe /\ [][NextPipe]_vars

---------------------------------------------------------------------------
(* Claims about the demonstration run *)

\* the entities whose Load must have returned before entity e starts
Prerequisites(e) ==
    CASE e = "admissions" -> {"patients"}
      [] e = "treatments" -> {"admissions", "diagnoses"}
      [] e = "billing" -> {"admissions"}
      [] e = "readmission" -> {"admissions", "patients", "diagnoses", "treatments"}
      [] OTHER -> {}

\* the stage invoked by this step, if any
Invokes == Len(pipe'.invoked) = Len(pipe.invoked) + 1
Invoked == pipe'.invoked[Len(pipe'.invoked)]

C21_Step == Invokes => Prerequisites(Invoked[1]) \subseteq pipe.loaded

\* C21: entities run in dependency order: whenever a stage of an entity (or
\* the readmission analysis) is invoked, the Load stage of each of its
\* prerequisites has returned: patients before admissions; admissions and
\* diagnoses before treatments; admissions before billing; admissions,
\* patients, diagnoses and treatments before the readmission analysis
C21_DependencyOrder == [][C21_Step]_vars

\* a stage fails in this step
Fails == pipe'.failures /= pipe.failures

C22_Step ==
    /\ Fails =>
          /\ Invokes
          /\ \E cause \in {"SourceNotFoundError", "SourceFormatError", "SchemaError",
                           "ConnectionError", "PersistenceError", "TypeError"} :
                pipe'.failures = pipe.failures \cup {Tagged(Invoked[1], Invoked[2], cause)}
          /\ pipe'.entity /= Invoked[1]
          /\ \A x \in Entities \ {Invoked[1]} : db'[x] = db[x]
          /\ \A x \in pipe.loaded : db[x] \subseteq db'[x]
    /\ Invokes => \A f \in pipe.failures : f.entity /= Invoked[1]

---------------------------------------------------------------------------
(* The dashboard: PatientData of app.py and its two read endpoints *)

\* the length add_patient cuts the list to
KeepRecent == 10

\* at most this many add_patient calls in a behaviour
MaxAdds == 11

\* the readmission rates of PatientData.__init__, in tenths of a percent:
\* by age, by gender, by admission type
Rates == <<<<82, 105, 153, 187>>, <<132, 118>>, <<143, 112, 87>>>>

TruncateOldest(s) == SubSeq(s, Len(s) - Min(Len(s), KeepRecent) + 1, Len(s))

\* self.recent_admissions[:10]
Truncate(s) == SubSeq(s, 1, Min(Len(s), KeepRecent))

InitApp ==
    /\ AppIdle
    /\ ReadmIdle
    /\ LoadIdle
    /\ CleanIdle
    /\ FeatIdle
    /\ SinkIdle
    /\ MlIdle
    /\ PipeIdle

\* add_patient(patient_id, admission_date, admission_type): the new entry
\* goes to the front, the list is cut to its first 10 and returned
add_patient ==
    /\ Len(history) - Len(Seed) < MaxAdds
    /\ \E patient_id \in {1, 2}, admission_date \in {20}, admission_type \in {"urgent"} :
          LET entry == [patient_id |-> patient_id, admission_date |-> admission_date,
                        discharge_date |-> Null, admission_type |-> admission_type]
          IN  /\ recent_admissions' = Truncate(<<entry>> \o recent_admissions)
              /\ history' = <<entry>> \o history
              /\ response' = [endpoint |-> "add_patient",
                              recent_admissions |-> recent_admissions', rates |-> <<>>]
    /\ UNCHANGED notApp

\* GET /api/readmission_rates
get_readmission_rates ==
    /\ response' = [endpoint |-> "/api/readmission_rates", recent_admissions |-> <<>>,
                    rates |-> Rates]
    /\ UNCHANGED <<recent_admissions, history, notApp>>

\* GET /api/recent_admissions
get_recent_admissions ==
    /\ response' = [endpoint |-> "/api/recent_admissions",
                    recent_admissions |-> recent_admissions, rates |-> <<>>]
    /\ UNCHANGED <<recent_admissions, history, notApp>>

NextApp ==
    \/ add_patient
    \/ get_readmission_rates
    \/ get_recent_admissions

SpecApp == InitApp /\ [][NextApp]_vars

---------------------------------------------------------------------------
(* Claims about the dashboard *)

C30_Step ==
    /\ Len(recent_admissions') <= 10
    /\ Len(history') > Len(history) =>
          /\ recent_admissions'[1] = history'[1]
          /\ response'.endpoint = "add_patient"
    /\ \A i \in 1 .. Len(recent_admissions') : recent_admissions'[i] = history'[i]
    /\ Len(recent_admissions') = IF Len(history') < 10 THEN Len(history') ELSE 10
    /\ response'.endpoint \in {"/api/readmission_rates", "/api/recent_admissions"}
          => recent_admissions' = recent_admissions

\* C30: after any sequence of add_patient calls recent_admissions holds at
\* most 10 entries, newest first, the latest at index 0: exactly the 10
\* entries added last, the seed entries being the oldest; the two read
\* endpoints leave the list as it is
C30_RecentAdmissions == [][C30_Step]_vars

\* ten entries were added, so both seed entries are gone, and the list has
\* been read
C30_Witness ==
    /\ Len(history) = Len(Seed) + 10
    /\ Len(recent_admissions) = 10
    /\ \A i \in 1 .. 10 : recent_admissions[i] \notin {Seed[1], Seed[2]}
    /\ response.endpoint = "/api/recent_admissions"

=============================================================================
